---------------------------- MODULE Spec2Model ----------------------------
(***************************************************************************)
(* A model of the JsonTalkie protocol engine (src/json_talkie.py): the     *)
(* byte-level field codec and checksum, the message codec, and the         *)
(* listen / processMessage / transmitMessage state machine; and the frame  *)
(* assembly of the serial transport (src/broadcast_socket_serial.py).      *)
(*                                                                         *)
(* Bytes are one-character strings ("{", "c", "7"); the token "xFF" stands *)
(* for the byte 0xFF, which is never valid UTF-8.  A buffer (bytes or      *)
(* bytearray) is a sequence of bytes; the source's 0-based index i is the  *)
(* sequence index i + 1, see At.                                           *)
(***************************************************************************)
EXTENDS Integers, Sequences, FiniteSets, TLC

(***************************************************************************)
(* Bytes and ord()                                                         *)
(***************************************************************************)
Digit == <<"0", "1", "2", "3", "4", "5", "6", "7", "8", "9">>

Lower == <<"a", "b", "c", "d", "e", "f", "g", "h", "i", "j", "k", "l", "m",
           "n", "o", "p", "q", "r", "s", "t", "u", "v", "w", "x", "y", "z">>

Upper == <<"A", "B", "C", "D", "E", "F", "G", "H", "I", "J", "K", "L", "M",
           "N", "O", "P", "Q", "R", "S", "T", "U", "V", "W", "X", "Y", "Z">>

Punct == <<"{", "}", "\"", ":", ",", "\\", " ", "-", "[", "]", "xFF">>

PunctOrd == <<123, 125, 34, 58, 44, 92, 32, 45, 91, 93, 255>>

Range(s) == {s[i] : i \in 1..Len(s)}

IndexOf(s, c) == CHOOSE i \in 1..Len(s) : s[i] = c

Alphabet == Range(Digit) \cup Range(Lower) \cup Range(Upper) \cup Range(Punct)

\* ord(c): the integer value of a byte
OrdTable ==
    [c \in Alphabet |->
        IF c \in Range(Digit) THEN 47 + IndexOf(Digit, c)
        ELSE IF c \in Range(Lower) THEN 96 + IndexOf(Lower, c)
        ELSE IF c \in Range(Upper) THEN 64 + IndexOf(Upper, c)
        ELSE PunctOrd[IndexOf(Punct, c)]]

Ord(c) == OrdTable[c]

IsDigit(c) == c \in Range(Digit)

DigitVal(c) == IndexOf(Digit, c) - 1

\* payload[i] with the source's 0-based index
At(payload, i) == payload[i + 1]

\* payload[a:b], 0-based and half open as a Python slice
Slice(payload, a, b) == IF b <= a THEN <<>> ELSE SubSeq(payload, a + 1, b)

Min(S) == CHOOSE x \in S : \A y \in S : x <= y

(***************************************************************************)
(* 16-bit arithmetic                                                       *)
(***************************************************************************)
RECURSIVE Xor(_, _)
\* a ^ b on non-negative integers
Xor(a, b) ==
    IF a = 0 THEN b
    ELSE IF b = 0 THEN a
    ELSE (((a % 2) + (b % 2)) % 2) + (2 * Xor(a \div 2, b \div 2))

\* x & 0xFFFF, for x of either sign (Python integers are two's complement)
Mask16(x) == x % 65536

(***************************************************************************)
(* FieldCodec: src/json_talkie.py 383-604                                  *)
(***************************************************************************)
\* get_colon_position: index of the ':' of "key": at or after colon_position, else 0
get_colon_position(payload, key, colon_position) ==
    LET json_length == Len(payload)
        hits == {i \in colon_position..(json_length - 1) :
                    /\ At(payload, i) = ":"
                    /\ At(payload, i - 2) = key
                    /\ At(payload, i - 3) = "\""
                    /\ At(payload, i - 1) = "\""}
    IN  IF json_length > 6 /\ hits # {} THEN Min(hits) ELSE 0

get_value_position(payload, key, colon_position) ==
    IF get_colon_position(payload, key, colon_position) # 0
    THEN get_colon_position(payload, key, colon_position) + 1
    ELSE 0

get_key_position(payload, key, colon_position) ==
    IF get_colon_position(payload, key, colon_position) # 0
    THEN get_colon_position(payload, key, colon_position) - 2
    ELSE 0

\* first index j >= from with payload[j] in stop, or len(payload)
ScanTo(payload, from, stop) ==
    LET ends == {j \in from..(Len(payload) - 1) : At(payload, j) \in stop}
    IN  IF ends = {} THEN Len(payload) ELSE Min(ends)

\* first index j >= from with payload[j] not a digit, or len(payload)
ScanDigits(payload, from) ==
    LET ends == {j \in from..(Len(payload) - 1) : ~IsDigit(At(payload, j))}
    IN  IF ends = {} THEN Len(payload) ELSE Min(ends)

\* lines 452-461 of get_value_type, for a value that opens no string: stop is
\* where the scan for ',' or '}' ends, digits where the digits end
number_value_type(length, stop, digits) ==
    IF digits < stop THEN "OTHER"
    ELSE IF stop = length THEN "VOID"
    ELSE "INTEGER"

\* get_value_type from the value position json_i on
value_type_at(payload, json_i) ==
    IF json_i = 0 THEN "VOID"
    ELSE IF json_i >= Len(payload) THEN "IndexError"
    ELSE IF At(payload, json_i) = "\""
         THEN IF ScanTo(payload, json_i + 1, {"\""}) = Len(payload)
              THEN "VOID" ELSE "STRING"
    ELSE number_value_type(Len(payload), ScanTo(payload, json_i, {",", "}"}),
                           ScanDigits(payload, json_i))

\* get_value_type: "STRING", "INTEGER", "OTHER", "VOID"; "IndexError" when the
\* byte at the value position is read past the end of the buffer
get_value_type(payload, key, colon_position) ==
    value_type_at(payload, get_value_position(payload, key, colon_position))

\* get_field_length for the value at json_i of type value_type
field_length_of(payload, json_i, value_type) ==
    IF value_type = "STRING"
    THEN 4 + 2 + (ScanTo(payload, json_i + 1, {"\""}) - (json_i + 1))
    ELSE IF value_type = "INTEGER"
    THEN 4 + (ScanDigits(payload, json_i) - json_i)
    ELSE 4

\* get_field_length from the value position json_i on
field_length_at(payload, key, json_i) ==
    IF json_i = 0 THEN 0
    ELSE field_length_of(payload, json_i, get_value_type(payload, key, json_i - 1))

\* get_field_length: the length of "k":value (4 for a value that is neither a
\* string nor an integer); where get_value_type raises, so does this
get_field_length(payload, key, colon_position) ==
    field_length_at(payload, key, get_value_position(payload, key, colon_position))

\* get_field_length raises IndexError: the key's colon is the last byte
field_length_raises(payload, key, colon_position) ==
    /\ get_value_position(payload, key, colon_position) # 0
    /\ get_value_type(payload, key,
                      get_value_position(payload, key, colon_position) - 1) = "IndexError"

RECURSIVE ParseDigits(_, _, _, _)
ParseDigits(payload, from, to, acc) ==
    IF from >= to THEN acc
    ELSE ParseDigits(payload, from + 1, to, acc * 10 + DigitVal(At(payload, from)))

\* get_number from the value position json_i on
number_at(json_payload, json_i) ==
    IF json_i = 0 THEN 0
    ELSE ParseDigits(json_payload, json_i, ScanDigits(json_payload, json_i), 0)

\* get_number: the decimal digits at the value position, 0 when the key is absent
get_number(json_payload, key, colon_position) ==
    number_at(json_payload, get_value_position(json_payload, key, colon_position))

\* the "shift payload left" loop of remove
ShiftLeft(json_payload, field_position, field_length) ==
    [i \in 1..Len(json_payload) |->
        IF field_position <= i - 1 /\ i - 1 < Len(json_payload) - field_length
        THEN At(json_payload, i - 1 + field_length)
        ELSE json_payload[i]]

\* the del statement of remove, on the shifted payload
DeleteField(shifted, field_position, field_length) ==
    Slice(shifted, 0, field_position)
        \o Slice(shifted, field_position + field_length, Len(shifted))

\* the loop of remove followed by its del statement
ShiftAndDelete(json_payload, field_position, field_length) ==
    DeleteField(ShiftLeft(json_payload, field_position, field_length),
                field_position, field_length)

\* the field is preceded by a comma, which goes with it
LeadingComma(json_payload, field_position) ==
    field_position > 0 /\ At(json_payload, field_position - 1) = ","

\* else the field is followed by a comma, which goes with it
TrailingComma(json_payload, field_position, field_length) ==
    /\ ~LeadingComma(json_payload, field_position)
    /\ field_position + field_length < Len(json_payload)
    /\ At(json_payload, field_position + field_length) = ","

\* remove, from the field's position and length on (lines 521-542)
remove_field(json_payload, field_position, field_length) ==
    [payload |->
        ShiftAndDelete(
            json_payload,
            IF LeadingComma(json_payload, field_position)
            THEN field_position - 1 ELSE field_position,
            IF \/ LeadingComma(json_payload, field_position)
               \/ TrailingComma(json_payload, field_position, field_length)
            THEN field_length + 1 ELSE field_length),
     ret |->
        Len(json_payload)
            - (IF \/ LeadingComma(json_payload, field_position)
                  \/ TrailingComma(json_payload, field_position, field_length)
               THEN field_length + 1 ELSE field_length),
     exc |-> "none"]

\* remove, for the colon position cp of the key
remove_at(json_payload, key, cp) ==
    IF cp = 0 THEN [payload |-> json_payload, ret |-> 0, exc |-> "none"]
    ELSE IF field_length_raises(json_payload, key, cp)
         THEN [payload |-> json_payload, ret |-> 0, exc |-> "IndexError"]
    ELSE remove_field(json_payload, cp - 3, get_field_length(json_payload, key, cp))

\* remove: [payload, ret, exc]; ret is the source's json_length - field_length
remove(json_payload, key, colon_position) ==
    remove_at(json_payload, key, get_colon_position(json_payload, key, colon_position))

RECURSIVE DigitsOf(_)
\* the decimal digits of number > 0, most significant first
DigitsOf(number) ==
    IF number = 0 THEN <<>>
    ELSE Append(DigitsOf(number \div 10), Digit[(number % 10) + 1])

number_of_digits(number) == IF number > 9 THEN Len(DigitsOf(number)) ELSE 1

\* payload with ins inserted before index pos (payload[pos:pos] = ins)
InsertAt(payload, pos, ins) ==
    Slice(payload, 0, pos) \o ins \o Slice(payload, pos, Len(payload))

\* lines 573-588 of set_number: ,"key": before the closing brace, without the
\* comma when the object is empty
insert_key(json_payload, key, json_length) ==
    IF json_length > 2
    THEN InsertAt(json_payload, json_length - 1, <<",", "\"", key, "\"", ":">>)
    ELSE InsertAt(json_payload, json_length - 1, <<"\"", key, "\"", ":">>)

\* lines 590-602 of set_number: the digits before the closing brace
insert_digits(json_payload, number) ==
    InsertAt(json_payload, Len(json_payload) - 1,
             IF number # 0 THEN DigitsOf(number) ELSE <<"0">>)

\* set_number after the field was removed: removed is what remove returned
\* (the payload as it is, with its length, for a key the payload did not hold)
set_number_in(json_payload, key, number, cp, removed) ==
    IF removed.exc # "none"
    THEN [payload |-> json_payload, ok |-> FALSE, exc |-> removed.exc]
    ELSE IF cp # 0 /\ removed.ret = 0
         THEN [payload |-> removed.payload, ok |-> FALSE, exc |-> "none"]
    ELSE IF removed.ret < 2
         THEN [payload |-> <<"{", "}">>, ok |-> FALSE, exc |-> "none"]
    ELSE [payload |-> insert_digits(insert_key(removed.payload, key, removed.ret), number),
          ok |-> TRUE, exc |-> "none"]

\* set_number, for the colon position cp of the key
set_number_at(json_payload, key, number, cp) ==
    set_number_in(json_payload, key, number, cp,
                  IF cp # 0 THEN remove(json_payload, key, cp)
                  ELSE [payload |-> json_payload, ret |-> Len(json_payload),
                        exc |-> "none"])

\* set_number: [payload, ok, exc]; ok is FALSE where the source returns 0
set_number(json_payload, key, number, colon_position) ==
    set_number_at(json_payload, key, number,
                  get_colon_position(json_payload, key, colon_position))

RECURSIVE ChecksumFrom_odd_low(_, _, _)
\* ChecksumFrom with a final odd byte taken as the low byte of its chunk
ChecksumFrom_odd_low(json_payload, i, checksum) ==
    IF i >= Len(json_payload) THEN checksum
    ELSE LET chunk == IF i + 1 < Len(json_payload)
                      THEN (Ord(At(json_payload, i)) * 256)
                              + Ord(At(json_payload, i + 1))
                      ELSE Ord(At(json_payload, i))
         IN  ChecksumFrom_odd_low(json_payload, i + 2, Xor(checksum, chunk))

RECURSIVE ChecksumFrom(_, _, _)
ChecksumFrom(json_payload, i, checksum) ==
    IF i >= Len(json_payload) THEN checksum
    ELSE LET chunk == (Ord(At(json_payload, i)) * 256)
                        + (IF i + 1 < Len(json_payload)
                           THEN Ord(At(json_payload, i + 1)) ELSE 0)
         IN  ChecksumFrom(json_payload, i + 2, Xor(checksum, chunk))

\* generate_checksum: XOR of the 2-byte big-endian chunks
generate_checksum(json_payload) == ChecksumFrom(json_payload, 0, 0)

\* insert_checksum: the payload with "c":checksum(payload) set
insert_checksum(json_payload) ==
    set_number(json_payload, "c", generate_checksum(json_payload), 4).payload

\* json_payload[i] = c
SetByte(json_payload, i, c) == [json_payload EXCEPT ![i + 1] = c]

\* the test of lines 633-637: the colon at i closes the key "c"
AfterChecksumKey(json_payload, i) ==
    /\ At(json_payload, i - 2) = "c"
    /\ At(json_payload, i - 3) = "\""
    /\ At(json_payload, i - 1) = "\""

RECURSIVE extract_loop(_, _, _, _, _)
\* the while loop of extract_checksum (lines 630-651); every read is of the
\* buffer as the earlier iterations left it
extract_loop(json_payload, i, new_index, at_c, data_checksum) ==
    IF i >= Len(json_payload)
    THEN [payload |-> json_payload, ret |-> new_index, checksum |-> data_checksum]
    ELSE IF At(json_payload, i) = ":"
    THEN extract_loop(SetByte(json_payload, new_index, ":"), i + 1, new_index + 1,
                      at_c \/ AfterChecksumKey(json_payload, i), data_checksum)
    ELSE IF at_c /\ ~IsDigit(At(json_payload, i))
    THEN extract_loop(SetByte(json_payload, new_index, At(json_payload, i)),
                      i + 1, new_index + 1, FALSE, data_checksum)
    ELSE IF at_c /\ At(json_payload, i - 1) = ":"
    THEN extract_loop(SetByte(SetByte(json_payload, i, "0"), new_index,
                              At(json_payload, i)),
                      i + 1, new_index + 1, TRUE, DigitVal(At(json_payload, i)))
    ELSE IF at_c
    THEN extract_loop(json_payload, i + 1, new_index, TRUE,
                      (data_checksum * 10) + DigitVal(At(json_payload, i)))
    ELSE extract_loop(SetByte(json_payload, new_index, At(json_payload, i)),
                      i + 1, new_index + 1, FALSE, data_checksum)

\* extract_checksum: [payload, ret, checksum] for the source's
\* (new_index, data_checksum) and the bytearray as it leaves it
extract_checksum(json_payload) == extract_loop(json_payload, 4, 4, FALSE, 0)

(***************************************************************************)
(* Protocol codes.  talkie_codes.py as shipped under src/ predates the     *)
(* engine (it defines JsonKey, MessageData, ...); the TalkieKey,           *)
(* MessageValue, BroadcastValue, RogerValue and ErrorValue enumerations    *)
(* the engine imports are taken from the specification's field list and    *)
(* from the numbering in the engine's own comments (json_talkie.py         *)
(* 277-280, 289-295).  They are integer enumerations: the engine compares  *)
(* them with decoded integers and serializes them as numbers.              *)
(***************************************************************************)
\* the keys of a message (ACTION_ is TalkieKey.ACTION); the timestamp shares
\* the identity's key
TalkieKey ==
    [CHECKSUM |-> <<"c">>, IDENTITY |-> <<"i">>, TIMESTAMP |-> <<"i">>,
     MESSAGE |-> <<"m">>, FROM |-> <<"f">>, TO |-> <<"t">>, ERROR |-> <<"e">>,
     VALUE |-> <<"v">>, ROGER |-> <<"r">>, ACTION_ |-> <<"a">>, BROADCAST |-> <<"b">>]

\* str(0): the first extra payload key
Key_0 == <<"0">>

MessageValue ==
    [NOISE |-> 0, TALK |-> 1, CHANNEL |-> 2, PING |-> 3, CALL |-> 4, LIST |-> 5,
     SYSTEM |-> 6, ECHO |-> 7, ERROR |-> 8]

\* the values MessageValue(x) accepts; any other x raises ValueError
MessageValues == MessageValue.NOISE..MessageValue.ERROR

\* LOCAL_ is BroadcastValue.LOCAL
BroadcastValue == [REMOTE |-> 0, LOCAL_ |-> 1, SELF |-> 2]

\* the values BroadcastValue(x) accepts
BroadcastValues == BroadcastValue.REMOTE..BroadcastValue.SELF

RogerValue == [ROGER |-> 0, SAY_AGAIN |-> 1, NEGATIVE |-> 2]

ErrorValue == [CHECKSUM |-> 2]

(***************************************************************************)
(* Messages: a Python dict, in insertion order, as a sequence of           *)
(* [k |-> key, v |-> value].  A key is a sequence of bytes; a value is an  *)
(* integer [int |-> n], a text [str |-> bytes], a bool, None, or a nested   *)
(* dict [obj |-> d].  A Python bool is an int: True == 1, False == 0 and   *)
(* isinstance(True, int) holds, so a bool has an int field as well.        *)
(***************************************************************************)
IntV(n) == [int |-> n]

StrV(s) == [str |-> s]

\* True and False (JSON true and false)
BoolV(b) == [int |-> IF b THEN 1 ELSE 0, bool |-> b]

\* None (JSON null)
NullV == [null |-> TRUE]

\* isinstance(v, int)
IsInt(v) == "int" \in DOMAIN v

IsStr(v) == "str" \in DOMAIN v

EmptyDict == <<>>

\* k in d
Has(d, k) == \E j \in 1..Len(d) : d[j].k = k

\* d[k], for k in d
Get(d, k) == d[CHOOSE j \in 1..Len(d) : d[j].k = k].v

\* d[k] = v: in place for a key d holds, appended otherwise
Put(d, k, v) ==
    IF Has(d, k)
    THEN [j \in 1..Len(d) |-> IF d[j].k = k THEN [k |-> k, v |-> v] ELSE d[j]]
    ELSE Append(d, [k |-> k, v |-> v])

\* Python's == on two values: an integer never equals a text, None equals
\* None only
ValEq(a, b) ==
    \/ IsInt(a) /\ IsInt(b) /\ a.int = b.int
    \/ IsStr(a) /\ IsStr(b) /\ a.str = b.str
    \/ "null" \in DOMAIN a /\ "null" \in DOMAIN b

\* d has key k with an integer value equal to n
HasInt(d, k, n) == Has(d, k) /\ IsInt(Get(d, k)) /\ Get(d, k).int = n

(***************************************************************************)
(* MessageCodec: json.dumps(message, separators=(',', ':')) and            *)
(* json.loads, for flat objects whose values are integers, texts free of   *)
(* escapes, true, false, null and {}; json.dumps for nested objects too.   *)
(***************************************************************************)
EncodeInt(n) ==
    IF n = 0 THEN <<"0">>
    ELSE IF n < 0 THEN <<"-">> \o DigitsOf(0 - n)
    ELSE DigitsOf(n)

RECURSIVE encode(_)

EncodeValue(v) ==
    IF "obj" \in DOMAIN v THEN encode(v.obj)
    ELSE IF "null" \in DOMAIN v THEN <<"n", "u", "l", "l">>
    ELSE IF "bool" \in DOMAIN v
         THEN (IF v.bool THEN <<"t", "r", "u", "e">> ELSE <<"f", "a", "l", "s", "e">>)
    ELSE IF IsInt(v) THEN EncodeInt(v.int)
    ELSE <<"\"">> \o v.str \o <<"\"">>

RECURSIVE EncodeMembers(_, _)
EncodeMembers(d, j) ==
    IF j > Len(d) THEN <<>>
    ELSE (IF j > 1 THEN <<",">> ELSE <<>>)
            \o <<"\"">> \o d[j].k \o <<"\"", ":">> \o EncodeValue(d[j].v)
            \o EncodeMembers(d, j + 1)

\* encode: compact serialization, fields in insertion order
encode(message) == <<"{">> \o EncodeMembers(message, 1) \o <<"}">>

\* valid_checksum: the checksum key set to 0 (appended if the message has
\* none), the message serialized, the checksum taken over those bytes; ret is
\* what the function returns, checksum what it leaves under the checksum key
valid_checksum(message) ==
    [checksum |->
        generate_checksum(encode(Put(message, TalkieKey.CHECKSUM, IntV(0)))),
     ret |->
        ValEq(IF Has(message, TalkieKey.CHECKSUM)
              THEN Get(message, TalkieKey.CHECKSUM) ELSE IntV(0),
              IntV(generate_checksum(encode(Put(message, TalkieKey.CHECKSUM, IntV(0))))))]

DecodeFails == [kind |-> "None", msg |-> EmptyDict]

\* no value can be read at index vp
NoValue(vp) == [ok |-> FALSE, v |-> IntV(0), next |-> vp]

\* a text value opening at index vp and closing at index q
ParseText(b, vp, q) ==
    IF q = Len(b) \/ "\\" \in Range(Slice(b, vp + 1, q)) THEN NoValue(vp)
    ELSE [ok |-> TRUE, v |-> StrV(Slice(b, vp + 1, q)), next |-> q + 1]

\* an integer value at index vp whose digits are b[ds:de]
ParseInt(b, vp, ds, de) ==
    IF de = ds \/ (de - ds > 1 /\ At(b, ds) = "0") THEN NoValue(vp)
    ELSE [ok |-> TRUE,
          v |-> IntV(IF ds > vp THEN 0 - ParseDigits(b, ds, de, 0)
                     ELSE ParseDigits(b, ds, de, 0)),
          next |-> de]

\* the value starting at index vp: [ok, v, next]
ParseValue(b, vp) ==
    IF vp >= Len(b) THEN NoValue(vp)
    ELSE IF At(b, vp) = "\"" THEN ParseText(b, vp, ScanTo(b, vp + 1, {"\""}))
    ELSE IF vp + 2 <= Len(b) /\ Slice(b, vp, vp + 2) = <<"{", "}">>
         THEN [ok |-> TRUE, v |-> [obj |-> EmptyDict], next |-> vp + 2]
    ELSE IF vp + 4 <= Len(b) /\ Slice(b, vp, vp + 4) = <<"n", "u", "l", "l">>
         THEN [ok |-> TRUE, v |-> NullV, next |-> vp + 4]
    ELSE IF vp + 4 <= Len(b) /\ Slice(b, vp, vp + 4) = <<"t", "r", "u", "e">>
         THEN [ok |-> TRUE, v |-> BoolV(TRUE), next |-> vp + 4]
    ELSE IF vp + 5 <= Len(b) /\ Slice(b, vp, vp + 5) = <<"f", "a", "l", "s", "e">>
         THEN [ok |-> TRUE, v |-> BoolV(FALSE), next |-> vp + 5]
    ELSE IF At(b, vp) = "-" THEN ParseInt(b, vp, vp + 1, ScanDigits(b, vp + 1))
    ELSE ParseInt(b, vp, vp, ScanDigits(b, vp))

RECURSIVE ParseMembers(_, _, _)

\* the member whose value val was read, added to acc, and what follows it
ParseNext(b, acc, key, val) ==
    IF ~val.ok \/ val.next >= Len(b) THEN DecodeFails
    ELSE IF At(b, val.next) = ","
         THEN ParseMembers(b, val.next + 1, Put(acc, key, val.v))
    ELSE IF At(b, val.next) = "}" /\ val.next = Len(b) - 1
         THEN [kind |-> "dict", msg |-> Put(acc, key, val.v)]
    ELSE DecodeFails

\* the member whose key opens at index p and closes at index kq
ParseMember(b, p, kq, acc) ==
    IF kq + 1 >= Len(b) \/ At(b, kq + 1) # ":" \/ "\\" \in Range(Slice(b, p + 1, kq))
    THEN DecodeFails
    ELSE ParseNext(b, acc, Slice(b, p + 1, kq), ParseValue(b, kq + 2))

\* the members from the key quote at index p on, added to acc
ParseMembers(b, p, acc) ==
    IF p >= Len(b) \/ At(b, p) # "\"" THEN DecodeFails
    ELSE ParseMember(b, p, ScanTo(b, p + 1, {"\""}), acc)

\* decode: [kind, msg] with kind "dict" (msg is the message), "other" (valid
\* JSON that is no object), "None" (json.loads failed and decode returned
\* None) or "UnicodeDecodeError" (raised by data.decode('utf-8'))
decode(data) ==
    IF "xFF" \in Range(data) THEN [kind |-> "UnicodeDecodeError", msg |-> EmptyDict]
    ELSE IF data = <<"{", "}">> THEN [kind |-> "dict", msg |-> EmptyDict]
    ELSE IF Len(data) > 0 /\ At(data, 0) = "{" THEN ParseMembers(data, 1, EmptyDict)
    ELSE IF ParseValue(data, 0).ok /\ ParseValue(data, 0).next = Len(data)
         THEN [kind |-> "other", msg |-> EmptyDict]
    ELSE DecodeFails

(***************************************************************************)
(* Capability tables (the manifesto handed to JsonTalkie.__init__)         *)
(***************************************************************************)
\* the texts of the capability tables and of the talkers' names
Txt ==
    [buzz |-> <<"b", "u", "z", "z">>, print |-> <<"p", "r", "i", "n", "t">>,
     duration |-> <<"d", "u", "r">>, Main |-> <<"M", "a", "i", "n">>,
     Buzzer |-> <<"B", "u", "z", "z", "e", "r">>, platform |-> <<"O", "S">>]

Entry(name, description) == [name |-> name, description |-> description]

\* the Talker of main.py: two "run" actions, one "set", one "get", both callbacks
Manifesto_Main ==
    [name |-> Txt.Main, description |-> <<"B", "z">>,
     groups |-> {"run", "set", "get"},
     run |-> <<Entry(Txt.buzz, <<"b", "z">>), Entry(Txt.print, <<"p", "r">>)>>,
     set |-> <<Entry(Txt.duration, <<"s", "d">>)>>,
     get |-> <<Entry(Txt.duration, <<"g", "d">>)>>,
     callbacks |-> {"echo", "error"}]

\* the CommandLine of talk.py: no capability group, both callbacks.  Its name,
\* Talker- and two random hex digits in the source, is written Main here so
\* that the same frames are addressed to every table.
Manifesto_CommandLine ==
    [name |-> Txt.Main, description |-> <<"T", "k">>,
     groups |-> {},
     run |-> <<>>, set |-> <<>>, get |-> <<>>,
     callbacks |-> {"echo", "error"}]

\* a table with two "run" entries and one "get" entry, and no "set" group
Manifesto_RunGet ==
    [name |-> Txt.Main, description |-> <<"R", "g">>,
     groups |-> {"run", "get"},
     run |-> <<Entry(Txt.buzz, <<"b", "z">>), Entry(Txt.print, <<"p", "r">>)>>,
     set |-> <<>>,
     get |-> <<Entry(Txt.duration, <<"g", "d">>)>>,
     callbacks |-> {"echo", "error"}]

Manifestos == {Manifesto_Main, Manifesto_CommandLine, Manifesto_RunGet}

\* name in manifesto[group], for a decoded value (the keys are texts)
InGroup(entries, v) == IsStr(v) /\ \E j \in 1..Len(entries) : entries[j].name = v.str

(***************************************************************************)
(* The engine's state                                                      *)
(***************************************************************************)
VARIABLES
    manifesto,            \* self._manifesto, fixed at construction
    channel,              \* self._channel
    original_message,     \* self._original_message
    recoverable_message,  \* self._recoverable_message
    active_message,       \* self._active_message: the RetrySlot is active
    devices_address,      \* self._devices_address: the AddressCache
    running,              \* self._running
    thread,               \* the receive task: "none", "alive", "exited", "crashed"
    socket_open,          \* the transport is open
    off_called,           \* history: off() has been called
    off_pc,               \* where the caller of off() is: "idle" (not in off()),
                          \* "join" (about to join the task), "close" (about to
                          \* close the transport)
    resends,              \* history: retransmissions of the stored recoverable message
    acked,                \* history: an ECHO with the stored message's identity arrived
    trace,                \* the events of the handler that has just run, in order
    last                  \* the handler that has just run (op "none" once it has
                          \* returned): its input, the message object as it
                          \* leaves it (final) and the state it started from

engine_vars ==
    <<manifesto, channel, original_message, recoverable_message, active_message,
      devices_address, running, thread, socket_open, off_called, off_pc,
      resends, acked, trace, last>>

(***************************************************************************)
(* The serial transport's frame assembly (BroadcastSocket_Serial)          *)
(***************************************************************************)
VARIABLES
    reading_serial,       \* self._reading_serial: a frame is being accumulated
    received_buffer,      \* self._received_buffer: the scratch buffer
    received_length,      \* self._received_length: the cursor
    stream,               \* the bytes of the line receive() has not read yet
    fed,                  \* history: the name of the stream the line carries
    returned,             \* what the last receive() returned: <<>> for None,
                          \* <<data>> for (data, None)
    frames,               \* history: the frames receive() has returned, in order
    io_failed             \* history: a read of the port has raised

framer_vars == <<reading_serial, received_buffer, received_length, stream, fed,
                 returned, frames, io_failed>>

(***************************************************************************)
(* The field codec worked on one buffer (the static methods of JsonTalkie) *)
(***************************************************************************)
VARIABLES
    codec_payload,        \* json_payload: the bytearray the codec works on
    steps                 \* history: the codec calls made on it, in order, each
                          \* with the buffer it found and what it returned

codec_vars == <<codec_payload, steps>>

(***************************************************************************)
(* The receive tasks on() has started                                      *)
(***************************************************************************)
VARIABLES
    tasks                 \* history: one entry per threading.Thread that on()
                          \* started, in order (self._thread is the last):
                          \* "waiting" at the loop test of listen, "handling"
                          \* inside the loop body, "exited" once listen returned

\* what the engine's handlers never touch
outside_engine == <<framer_vars, codec_vars, tasks>>

vars == <<engine_vars, framer_vars, codec_vars, tasks>>

(***************************************************************************)
(* A handler runs on an execution state es: the engine fields it may       *)
(* change, the message object it works on (msg), the events it has caused  *)
(* (trace) and the exception that is propagating (exc, "none" if none).    *)
(* Once an exception propagates the remaining statements have no effect.   *)
(***************************************************************************)
Event(op, msg, addr) == [op |-> op, msg |-> msg, addr |-> addr]

Raise(es, e) == [es EXCEPT !.exc = e]

Log(es, ev) == [es EXCEPT !.trace = Append(@, ev)]

\* key in self._devices_address
DevHas(devices, key) == \E j \in 1..Len(devices) : ValEq(devices[j].k, key)

\* self._devices_address[key]
DevGet(devices, key) == devices[CHOOSE j \in 1..Len(devices) : ValEq(devices[j].k, key)].v

\* self._devices_address[key] = ip_port
DevPut(devices, key, ip_port) ==
    IF DevHas(devices, key)
    THEN [j \in 1..Len(devices) |->
            IF ValEq(devices[j].k, key) THEN [k |-> devices[j].k, v |-> ip_port]
            ELSE devices[j]]
    ELSE Append(devices, [k |-> key, v |-> ip_port])

\* getMessageData: "None" for a missing key, "ValueError" where MessageValue(x)
\* raises, else the integer of the MessageValue member
getMessageData(message, json_key) ==
    IF ~Has(message, json_key) THEN [kind |-> "None", val |-> 0]
    ELSE IF IsInt(Get(message, json_key)) /\ Get(message, json_key).int \in MessageValues
         THEN [kind |-> "value", val |-> Get(message, json_key).int]
    ELSE [kind |-> "ValueError", val |-> 0]

(***************************************************************************)
(* Outbound: remoteSend, hereSend, transmitMessage (json_talkie.py 146-208)*)
(***************************************************************************)
\* lines 164-166: the bytes remoteSend hands to the transport for message
encoded_message(message) == insert_checksum(encode(message))

\* swap_from that leaves a from field as it finds it
swap_from_kept(message, name) ==
    IF Has(message, TalkieKey.FROM) THEN message
    ELSE Put(message, TalkieKey.FROM, name)

\* lines 149-154 of remoteSend: the sender becomes the receiver, this talker
\* the sender (message.get('f') is None for a from field holding None too)
swap_from(message, name) ==
    IF Has(message, TalkieKey.FROM) /\ "null" \notin DOMAIN Get(message, TalkieKey.FROM)
    THEN IF ~ValEq(Get(message, TalkieKey.FROM), name)
         THEN Put(Put(message, TalkieKey.TO, Get(message, TalkieKey.FROM)),
                  TalkieKey.FROM, name)
         ELSE message
    ELSE Put(message, TalkieKey.FROM, name)

\* send_address that never looks into the AddressCache
send_address_broadcast(devices, message) == "broadcast"

\* the address remoteSend gives socket.send for message (lines 172-177)
send_address(devices, message) ==
    IF Has(message, TalkieKey.TO) /\ DevHas(devices, Get(message, TalkieKey.TO))
    THEN DevGet(devices, Get(message, TalkieKey.TO))
    ELSE "broadcast"

\* lines 164-180 of remoteSend: message goes to the transport.  The "send"
\* event holds the message and the address given to socket.send ("broadcast"
\* for none); the bytes sent are encoded_message of the message
socket_send(es, message) ==
    Log([es EXCEPT !.msg = message],
        Event("send", message, send_address(es.devices, message)))

\* lines 158-162 of remoteSend, for a message that has just been given its
\* identity: it becomes the original message and the RetrySlot's message
store_and_send(es, message) ==
    IF ~Has(message, TalkieKey.MESSAGE) THEN Raise([es EXCEPT !.msg = message], "KeyError")
    ELSE IF ~IsInt(Get(message, TalkieKey.MESSAGE))
         THEN Raise([es EXCEPT !.msg = message], "TypeError")
    ELSE socket_send(
             [es EXCEPT
                 !.original = IF Get(message, TalkieKey.MESSAGE).int < MessageValue.ECHO
                              THEN message ELSE @,
                 !.recoverable = IF Get(message, TalkieKey.MESSAGE).int # MessageValue.NOISE
                                 THEN message ELSE @,
                 !.active = IF Get(message, TalkieKey.MESSAGE).int # MessageValue.NOISE
                            THEN TRUE ELSE @,
                 !.resends = IF Get(message, TalkieKey.MESSAGE).int # MessageValue.NOISE
                             THEN 0 ELSE @,
                 !.acked = IF Get(message, TalkieKey.MESSAGE).int # MessageValue.NOISE
                           THEN FALSE ELSE @],
             message)

\* lines 156-180 of remoteSend, message being tagged and addressed
identify_and_send(es, message, now) ==
    IF Has(message, TalkieKey.IDENTITY) THEN socket_send(es, message)
    ELSE store_and_send(es, Put(message, TalkieKey.IDENTITY, IntV(now)))

\* remoteSend on es.msg; now is what message_id() returns if it is read
remoteSend(es, now) ==
    IF es.exc # "none" THEN es
    ELSE identify_and_send(
             es,
             swap_from(Put(es.msg, TalkieKey.BROADCAST, IntV(BroadcastValue.REMOTE)),
                       StrV(manifesto.name)),
             now)

\* actual_time - out_time_ms, wrapped as the source wraps it (lines 109-111)
delay_ms(actual_time, out_time_ms) ==
    IF actual_time - out_time_ms < 0
    THEN actual_time - out_time_ms + 65535 + 1
    ELSE actual_time - out_time_ms

\* the round-trip delay attached to an ECHO while the original message is a
\* PING (listen 105-113, hereSend 190-198); now2 is what message_id() returns
echo_delay(es, now2) ==
    IF es.exc # "none" THEN es
    ELSE IF getMessageData(es.original, TalkieKey.MESSAGE).kind = "ValueError"
         THEN Raise(es, "ValueError")
    ELSE IF /\ getMessageData(es.original, TalkieKey.MESSAGE).kind = "value"
            /\ getMessageData(es.original, TalkieKey.MESSAGE).val = MessageValue.PING
         THEN IF ~IsInt(Get(es.msg, TalkieKey.TIMESTAMP)) THEN Raise(es, "TypeError")
              ELSE IF ~Has(es.msg, Key_0)
              THEN [es EXCEPT !.msg = Put(@, Key_0,
                                          IntV(delay_ms(now2,
                                                        Get(es.msg, TalkieKey.TIMESTAMP).int)))]
              ELSE es
    ELSE es

RECURSIVE processMessage(_, _, _, _)

\* line 199 of hereSend: local dispatch, nothing is handed to the transport
here_process(es, now, now2, outcome) ==
    IF es.exc # "none" THEN es
    ELSE processMessage(Log(es, Event("here", es.msg, "none")), now, now2, outcome)

\* lines 189-199 of hereSend
here_echo(es, now, now2, outcome) ==
    IF ~Has(es.msg, TalkieKey.MESSAGE) THEN Raise(es, "KeyError")
    ELSE here_process(IF ValEq(Get(es.msg, TalkieKey.MESSAGE), IntV(MessageValue.ECHO))
                      THEN echo_delay(es, now2) ELSE es,
                      now, now2, outcome)

\* lines 187-188 of hereSend, for a message that has just been given its identity
here_store(es, message, now, now2, outcome) ==
    IF ~Has(message, TalkieKey.MESSAGE) THEN Raise([es EXCEPT !.msg = message], "KeyError")
    ELSE IF ~IsInt(Get(message, TalkieKey.MESSAGE))
         THEN Raise([es EXCEPT !.msg = message], "TypeError")
    ELSE here_echo(
             [es EXCEPT
                 !.msg = message,
                 !.original = IF Get(message, TalkieKey.MESSAGE).int < MessageValue.ECHO
                              THEN message ELSE @],
             now, now2, outcome)

\* lines 185-199 of hereSend, message being tagged
here_identify(es, message, now, now2, outcome) ==
    IF Has(message, TalkieKey.IDENTITY)
    THEN here_echo([es EXCEPT !.msg = message], now, now2, outcome)
    ELSE here_store(es, Put(message, TalkieKey.IDENTITY, IntV(now)), now, now2, outcome)

\* hereSend on es.msg
hereSend(es, now, now2, outcome) ==
    IF es.exc # "none" THEN es
    ELSE here_identify(es, Put(es.msg, TalkieKey.BROADCAST, IntV(BroadcastValue.SELF)),
                       now, now2, outcome)

\* BroadcastValue(x) raises for the value of the broadcast tag of message
invalid_tag(message) ==
    /\ Has(message, TalkieKey.BROADCAST)
    /\ ~(/\ IsInt(Get(message, TalkieKey.BROADCAST))
         /\ Get(message, TalkieKey.BROADCAST).int \in BroadcastValues)

\* transmitMessage that takes every message for a remote one
transmitMessage_remote_only(es, now, now2, outcome) ==
    IF es.exc # "none" THEN es
    ELSE IF invalid_tag(es.msg) THEN Raise(es, "ValueError")
    ELSE remoteSend(es, now)

\* transmitMessage on es.msg
transmitMessage(es, now, now2, outcome) ==
    IF es.exc # "none" THEN es
    ELSE IF invalid_tag(es.msg) THEN Raise(es, "ValueError")
    ELSE IF HasInt(es.msg, TalkieKey.BROADCAST, BroadcastValue.SELF)
         THEN hereSend(es, now, now2, outcome)
    ELSE remoteSend(es, now)

(***************************************************************************)
(* Dispatch: processMessage (json_talkie.py 211-302)                       *)
(***************************************************************************)
\* the capability callable or callback: outcome "true" or "false" is what it
\* returns, "raise" is an exception leaving it
invoke(es, op, outcome) ==
    IF es.exc # "none" THEN es
    ELSE IF outcome = "raise" THEN Raise(Log(es, Event(op, es.msg, "none")), "CallableError")
    ELSE Log(es, Event(op, es.msg, "none"))

\* message[k] = v on the message of es
set_field(es, k, v) ==
    IF es.exc # "none" THEN es ELSE [es EXCEPT !.msg = Put(@, k, v)]

RECURSIVE list_group(_, _, _, _, _, _)
\* one ECHO for each entry of a capability group, from entry j on
list_group(es, entries, j, now, now2, outcome) ==
    IF es.exc # "none" \/ j > Len(entries) THEN es
    ELSE list_group(
             transmitMessage(
                 set_field(set_field(es, TalkieKey.ACTION_, StrV(entries[j].name)),
                           Key_0, StrV(entries[j].description)),
                 now, now2, outcome),
             entries, j + 1, now, now2, outcome)

\* lines 229-232: the roger the callable's result stands for
roger_of(outcome) == IF outcome = "true" THEN RogerValue.ROGER ELSE RogerValue.NEGATIVE

\* process_call with the callable invoked before the immediate ECHO is sent
process_call_invoke_first(es, now, now2, outcome) ==
    IF Has(es.msg, TalkieKey.ACTION_) /\ "run" \in manifesto.groups
    THEN IF InGroup(manifesto.run, Get(es.msg, TalkieKey.ACTION_))
         THEN transmitMessage(
                  set_field(transmitMessage(invoke(es, "run", outcome), now, now2, outcome),
                            TalkieKey.ROGER, IntV(roger_of(outcome))),
                  now, now2, outcome)
         ELSE transmitMessage(
                  set_field(es, TalkieKey.ROGER, IntV(RogerValue.SAY_AGAIN)),
                  now, now2, outcome)
    ELSE es

\* case MessageValue.CALL
process_call(es, now, now2, outcome) ==
    IF Has(es.msg, TalkieKey.ACTION_) /\ "run" \in manifesto.groups
    THEN IF InGroup(manifesto.run, Get(es.msg, TalkieKey.ACTION_))
         THEN transmitMessage(
                  set_field(invoke(transmitMessage(es, now, now2, outcome), "run", outcome),
                            TalkieKey.ROGER, IntV(roger_of(outcome))),
                  now, now2, outcome)
         ELSE transmitMessage(
                  set_field(es, TalkieKey.ROGER, IntV(RogerValue.SAY_AGAIN)),
                  now, now2, outcome)
    ELSE es

\* the entries of a capability group, none for a group the table lacks
group_entries(group) ==
    IF group \in manifesto.groups THEN manifesto[group] ELSE <<>>

\* process_list without the loop over the "get" group
process_list_skip_get(es, now, now2, outcome) ==
    list_group(
        list_group(es, group_entries("run"), 1, now, now2, outcome),
        group_entries("set"), 1, now, now2, outcome)

\* case MessageValue.LIST
process_list(es, now, now2, outcome) ==
    list_group(
        list_group(
            list_group(es, group_entries("run"), 1, now, now2, outcome),
            group_entries("set"), 1, now, now2, outcome),
        group_entries("get"), 1, now, now2, outcome)

\* process_channel that reports the channel and never sets it
process_channel_report_only(es, now, now2, outcome) ==
    transmitMessage(set_field(es, TalkieKey.VALUE, IntV(es.channel)), now, now2, outcome)

\* case MessageValue.CHANNEL
process_channel(es, now, now2, outcome) ==
    transmitMessage(
        IF Has(es.msg, TalkieKey.VALUE) /\ IsInt(Get(es.msg, TalkieKey.VALUE))
        THEN [es EXCEPT !.channel = Get(es.msg, TalkieKey.VALUE).int]
        ELSE set_field(es, TalkieKey.VALUE, IntV(es.channel)),
        now, now2, outcome)

\* case MessageValue.ECHO: the identity is compared with
\* self._original_message.get('i'), which is None for a message without one
process_echo(es, outcome) ==
    IF /\ "echo" \in manifesto.callbacks
       /\ ValEq(Get(es.msg, TalkieKey.IDENTITY),
                IF Has(es.original, TalkieKey.IDENTITY)
                THEN Get(es.original, TalkieKey.IDENTITY) ELSE NullV)
    THEN invoke(es, "echo", outcome)
    ELSE es

\* case MessageValue.ERROR
process_error(es, outcome) ==
    IF "error" \in manifesto.callbacks THEN invoke(es, "error", outcome) ELSE es

\* to_echo that leaves the message-code of a request as it is
to_echo_kept(es, message_data) == es

\* lines 218-220: a request's message-code becomes ECHO
to_echo(es, message_data) ==
    IF message_data < MessageValue.ECHO
    THEN set_field(es, TalkieKey.MESSAGE, IntV(MessageValue.ECHO))
    ELSE es

\* lines 222-301: the match on message_data, es holding the message of lines 218-220
dispatch(es, message_data, now, now2, outcome) ==
    IF message_data = MessageValue.CALL THEN process_call(es, now, now2, outcome)
    ELSE IF message_data = MessageValue.LIST THEN process_list(es, now, now2, outcome)
    ELSE IF message_data = MessageValue.TALK
         THEN transmitMessage(set_field(es, Key_0, StrV(manifesto.description)),
                              now, now2, outcome)
    ELSE IF message_data = MessageValue.CHANNEL THEN process_channel(es, now, now2, outcome)
    ELSE IF message_data = MessageValue.PING THEN transmitMessage(es, now, now2, outcome)
    ELSE IF message_data = MessageValue.SYSTEM
         THEN transmitMessage(set_field(es, Key_0, StrV(Txt.platform)), now, now2, outcome)
    ELSE IF message_data = MessageValue.ECHO THEN process_echo(es, outcome)
    ELSE IF message_data = MessageValue.ERROR THEN process_error(es, outcome)
    ELSE es

processMessage(es, now, now2, outcome) ==
    IF es.exc # "none" THEN es
    ELSE IF ~Has(es.msg, TalkieKey.MESSAGE) THEN Raise(es, "KeyError")
    ELSE IF getMessageData(es.msg, TalkieKey.MESSAGE).kind # "value"
         THEN Raise(es, "ValueError")
    ELSE dispatch(to_echo(es, Get(es.msg, TalkieKey.MESSAGE).int),
                  Get(es.msg, TalkieKey.MESSAGE).int, now, now2, outcome)


(***************************************************************************)
(* Intake: listen and validate_message (json_talkie.py 69-143, 305-327)    *)
(***************************************************************************)
\* the 16-bit identity clock readings message_id() is given in this model
ClockValues == {0, 500, 501, 65535}

\* the RetrySlot timeout, in identity units (listen, line 74)
RetryTimeout == 500

\* the age of identity message_identity at clock reading now
Age(now, message_identity) == Mask16(now - message_identity)

\* check_timeout with the age taken as a plain difference, not wrapped to 16 bits
check_timeout_unwrapped(es, now) ==
    IF es.active /\ now - Get(es.recoverable, TalkieKey.IDENTITY).int > RetryTimeout
    THEN [es EXCEPT !.active = FALSE]
    ELSE es

\* the timeout check at the top of a listen iteration (lines 72-75)
check_timeout(es, now) ==
    IF es.active /\ Age(now, Get(es.recoverable, TalkieKey.IDENTITY).int) > RetryTimeout
    THEN [es EXCEPT !.active = FALSE]
    ELSE es

\* what lines 86-97 make of the payload left by remove
IntakeOf(message_checksum, removed) ==
    [exc |-> removed.exc,
     message_checksum |-> message_checksum,
     checksum |-> generate_checksum(removed.payload),
     decoded |-> decode(removed.payload)]

\* lines 86-97: the checksum read, the checksum field removed, the checksum
\* computed over what is left, and the decoded message
Intake(data) == IntakeOf(get_number(data, "c", 4), remove(data, "c", 4))

\* lines 313-318 of validate_message: the message is for this talker
for_me(message, es_channel) ==
    Has(message, TalkieKey.TO) =>
        IF IsInt(Get(message, TalkieKey.TO))
        THEN Get(message, TalkieKey.TO).int = es_channel
        ELSE ValEq(Get(message, TalkieKey.TO), StrV(manifesto.name))

\* validate_message, for what decode returned
validate_message(decoded, es_channel) ==
    /\ decoded.kind = "dict"
    /\ ~Has(decoded.msg, TalkieKey.CHECKSUM)
    /\ Has(decoded.msg, TalkieKey.MESSAGE)
    /\ IsInt(Get(decoded.msg, TalkieKey.MESSAGE))
    /\ Has(decoded.msg, TalkieKey.IDENTITY)
    /\ for_me(decoded.msg, es_channel)

RECURSIVE RenameKeys(_, _, _)
\* {'M' if k == 'm' else k: v for k, v in d.items()}, from item j on
RenameKeys(d, j, acc) ==
    IF j > Len(d) THEN acc
    ELSE RenameKeys(d, j + 1,
                    Put(acc, IF d[j].k = <<"m">> THEN <<"M">> ELSE d[j].k, d[j].v))

\* lines 130-131, sent being what remoteSend returns: the message it was given
\* is the stored one, es_msg the inbound message the handler goes on with
resent(sent, es_msg) ==
    IF sent.exc # "none" THEN sent
    ELSE [sent EXCEPT !.recoverable = sent.msg, !.msg = es_msg, !.resends = @ + 1]

\* lines 128-131: the stored message is sent again
resend(es, now) ==
    resent(remoteSend([es EXCEPT
                          !.active = IF Has(es.recoverable, <<"M">>) THEN FALSE ELSE @,
                          !.msg = RenameKeys(es.recoverable, 1, EmptyDict)],
                      now),
           es.msg)

\* checksum_error that sends the stored message again whatever identity the
\* error carries
checksum_error_any_identity(es, now) ==
    IF getMessageData(es.msg, TalkieKey.ERROR).kind = "ValueError"
    THEN Raise(es, "ValueError")
    ELSE IF getMessageData(es.msg, TalkieKey.ERROR).val # ErrorValue.CHECKSUM THEN es
    ELSE IF ~Has(es.recoverable, TalkieKey.IDENTITY) THEN Raise(es, "KeyError")
    ELSE IF es.active THEN resend(es, now)
    ELSE es

\* lines 121-131, es.msg the inbound message with its error kind
checksum_error(es, now) ==
    IF getMessageData(es.msg, TalkieKey.ERROR).kind = "ValueError"
    THEN Raise(es, "ValueError")
    ELSE IF getMessageData(es.msg, TalkieKey.ERROR).val # ErrorValue.CHECKSUM THEN es
    ELSE IF ~Has(es.recoverable, TalkieKey.IDENTITY) THEN Raise(es, "KeyError")
    ELSE IF /\ es.active
            /\ \/ ~Has(es.msg, TalkieKey.IDENTITY)
               \/ ValEq(Get(es.msg, TalkieKey.IDENTITY),
                        Get(es.recoverable, TalkieKey.IDENTITY))
         THEN resend(es, now)
    ELSE es

\* case MessageValue.ERROR of listen (lines 116-131), es.msg the inbound message
listen_error(es, now) ==
    checksum_error(IF ~Has(es.msg, TalkieKey.ERROR)
                   THEN set_field(es, TalkieKey.ERROR, IntV(ErrorValue.CHECKSUM))
                   ELSE es,
                   now)

\* lines 136-137: the sender's address is remembered
remember_address(es, ip_port) ==
    IF es.exc = "none" /\ Has(es.msg, TalkieKey.FROM)
    THEN [es EXCEPT !.devices = DevPut(@, Get(es.msg, TalkieKey.FROM), ip_port)]
    ELSE es

\* history: the ECHO in es.msg carries the identity of the stored message
note_ack(es) ==
    IF /\ Has(es.recoverable, TalkieKey.IDENTITY)
       /\ ValEq(Get(es.msg, TalkieKey.IDENTITY), Get(es.recoverable, TalkieKey.IDENTITY))
    THEN [es EXCEPT !.acked = TRUE]
    ELSE es

\* lines 100-131: the match on the message-code of the validated message
listen_match(es, now) ==
    IF HasInt(es.msg, TalkieKey.MESSAGE, MessageValue.ECHO)
    THEN echo_delay(note_ack(es), now)
    ELSE IF HasInt(es.msg, TalkieKey.MESSAGE, MessageValue.ERROR) THEN listen_error(es, now)
    ELSE es

\* lines 78-143: one received frame handled, in being Intake of its bytes;
\* the exception left in exc is one the try statement does not catch
listen_frame(es, in, ip_port, now, outcome) ==
    IF in.exc # "none" THEN Raise(es, in.exc)
    ELSE IF in.decoded.kind = "UnicodeDecodeError" THEN es
    ELSE IF ~validate_message(in.decoded, es.channel) THEN es
    ELSE processMessage(
             remember_address(listen_match([es EXCEPT !.msg = in.decoded.msg], now),
                              ip_port),
             now, now, outcome)

\* lines 116-126 find that es.msg, a validated ERROR that carries its error
\* kind, is a CHECKSUM error for the message of the active RetrySlot
matches_slot(es) ==
    /\ HasInt(es.msg, TalkieKey.MESSAGE, MessageValue.ERROR)
    /\ Has(es.msg, TalkieKey.ERROR)
    /\ getMessageData(es.msg, TalkieKey.ERROR).kind # "ValueError"
    /\ getMessageData(es.msg, TalkieKey.ERROR).val = ErrorValue.CHECKSUM
    /\ Has(es.recoverable, TalkieKey.IDENTITY)
    /\ es.active
    /\ ValEq(Get(es.msg, TalkieKey.IDENTITY), Get(es.recoverable, TalkieKey.IDENTITY))

\* lines 128-139 for the inbound ERROR in es.msg: the resend of what the
\* RetrySlot holds now, the sender's address, processMessage
listen_resume(es, ip_port, now, outcome) ==
    processMessage(remember_address(resend(es, now), ip_port), now, now, outcome)

(***************************************************************************)
(* The environment: frames the transport delivers, messages the            *)
(* application transmits, transport addresses                              *)
(***************************************************************************)
KV(k, v) == [k |-> k, v |-> v]

\* a peer's message as its remoteSend leaves it: code, to, extra fields, then
\* the broadcast tag, from and identity
PeerMessage(code, extra, tag, id) ==
    <<KV(TalkieKey.MESSAGE, IntV(code)), KV(TalkieKey.TO, StrV(Txt.Main))>>
        \o extra
        \o <<KV(TalkieKey.BROADCAST, IntV(tag)), KV(TalkieKey.FROM, StrV(Txt.Buzzer)),
             KV(TalkieKey.IDENTITY, IntV(id))>>

\* the frame a peer puts on the wire for message
Wire(message) == insert_checksum(encode(message))

\* frame with its checksum field holding another number than the checksum
Corrupt(frame) ==
    set_number(frame, "c", (get_number(frame, "c", 4) + 1) % 65536, 4).payload

\* a CALL of action from a peer
CallMessage(action, tag) ==
    PeerMessage(MessageValue.CALL, <<KV(TalkieKey.ACTION_, StrV(action))>>, tag, 0)

\* an ERROR of kind CHECKSUM from a peer, for the message of identity id
ErrorMessage(id) ==
    PeerMessage(MessageValue.ERROR, <<KV(TalkieKey.ERROR, IntV(ErrorValue.CHECKSUM))>>,
                BroadcastValue.REMOTE, id)

\* a TALK from a peer whose value is a nested object with a key c
NestedMessage ==
    PeerMessage(MessageValue.TALK,
                <<KV(TalkieKey.VALUE, [obj |-> <<KV(<<"c">>, IntV(5))>>])>>,
                BroadcastValue.REMOTE, 0)

\* the frames the transport delivers in this model
Frame ==
    [talk |-> Wire(PeerMessage(MessageValue.TALK, <<>>, BroadcastValue.REMOTE, 0)),
     ping |-> Wire(PeerMessage(MessageValue.PING, <<>>, BroadcastValue.REMOTE, 0)),
     list |-> Wire(PeerMessage(MessageValue.LIST, <<>>, BroadcastValue.REMOTE, 0)),
     channel |-> Wire(PeerMessage(MessageValue.CHANNEL, <<>>, BroadcastValue.REMOTE, 0)),
     system |-> Wire(PeerMessage(MessageValue.SYSTEM, <<>>, BroadcastValue.REMOTE, 0)),
     \* a CHANNEL that carries the value 5
     channel_5 |->
         Wire(PeerMessage(MessageValue.CHANNEL, <<KV(TalkieKey.VALUE, IntV(5))>>,
                          BroadcastValue.REMOTE, 0)),
     \* a TALK addressed to channel 5, and one addressed to channel 0
     talk_to_5 |->
         Wire(<<KV(TalkieKey.MESSAGE, IntV(MessageValue.TALK)),
                KV(TalkieKey.TO, IntV(5)),
                KV(TalkieKey.FROM, StrV(Txt.Buzzer)), KV(TalkieKey.IDENTITY, IntV(0))>>),
     talk_to_0 |->
         Wire(<<KV(TalkieKey.MESSAGE, IntV(MessageValue.TALK)),
                KV(TalkieKey.TO, IntV(0)),
                KV(TalkieKey.FROM, StrV(Txt.Buzzer)), KV(TalkieKey.IDENTITY, IntV(0))>>),
     call_buzz |-> Wire(CallMessage(Txt.buzz, BroadcastValue.REMOTE)),
     \* an action that is no entry of a "run" table
     call_unknown |-> Wire(CallMessage(Txt.duration, BroadcastValue.REMOTE)),
     \* a CALL tagged as self-originated, received from the transport
     call_self |-> Wire(CallMessage(Txt.buzz, BroadcastValue.SELF)),
     \* a CALL whose checksum field holds another number than the checksum
     call_corrupt |-> Corrupt(Wire(CallMessage(Txt.buzz, BroadcastValue.REMOTE))),
     echo_0 |-> Wire(PeerMessage(MessageValue.ECHO, <<>>, BroadcastValue.REMOTE, 0)),
     echo_65535 |->
         Wire(PeerMessage(MessageValue.ECHO, <<>>, BroadcastValue.REMOTE, 65535)),
     error_0 |-> Wire(ErrorMessage(0)),
     error_65535 |-> Wire(ErrorMessage(65535)),
     \* an ERROR that names no error kind
     error_default |->
         Wire(PeerMessage(MessageValue.ERROR, <<>>, BroadcastValue.REMOTE, 0)),
     \* an ERROR whose kind is no MessageValue
     error_kind9 |->
         Wire(PeerMessage(MessageValue.ERROR, <<KV(TalkieKey.ERROR, IntV(9))>>,
                          BroadcastValue.REMOTE, 0)),
     \* an ECHO whose identity is no 16-bit number
     echo_70000 |->
         Wire(PeerMessage(MessageValue.ECHO, <<>>, BroadcastValue.REMOTE, 70000)),
     \* an ECHO that carries a field "0"
     echo_with_0 |->
         Wire(PeerMessage(MessageValue.ECHO, <<KV(Key_0, IntV(7))>>,
                          BroadcastValue.REMOTE, 0)),
     \* an ECHO whose identity is null
     echo_null |->
         Wire(<<KV(TalkieKey.MESSAGE, IntV(MessageValue.ECHO)),
                KV(TalkieKey.TO, StrV(Txt.Main)),
                KV(TalkieKey.FROM, StrV(Txt.Buzzer)), KV(TalkieKey.IDENTITY, NullV)>>),
     \* a TALK whose to field is false
     talk_to_false |->
         Wire(<<KV(TalkieKey.MESSAGE, IntV(MessageValue.TALK)),
                KV(TalkieKey.TO, BoolV(FALSE)),
                KV(TalkieKey.FROM, StrV(Txt.Buzzer)), KV(TalkieKey.IDENTITY, IntV(0))>>),
     \* a TALK that names no receiver
     talk_to_all |->
         Wire(<<KV(TalkieKey.MESSAGE, IntV(MessageValue.TALK)),
                KV(TalkieKey.FROM, StrV(Txt.Buzzer)), KV(TalkieKey.IDENTITY, IntV(0))>>),
     nested_c |-> Wire(NestedMessage),
     \* a message-code outside the known range
     code99 |-> Wire(PeerMessage(99, <<>>, BroadcastValue.REMOTE, 0)),
     no_identity |->
         Wire(<<KV(TalkieKey.MESSAGE, IntV(MessageValue.TALK)),
                KV(TalkieKey.FROM, StrV(Txt.Buzzer))>>),
     \* addressed to another talker
     not_for_me |->
         Wire(<<KV(TalkieKey.MESSAGE, IntV(MessageValue.TALK)),
                KV(TalkieKey.TO, StrV(Txt.Buzzer)),
                KV(TalkieKey.FROM, StrV(Txt.Buzzer)), KV(TalkieKey.IDENTITY, IntV(0))>>),
     \* {"m":4,"c":   the checksum key's colon is the last byte
     truncated |-> <<"{", "\"", "m", "\"", ":", "4", ",", "\"", "c", "\"", ":">>,
     \* {"m":1    no JSON
     bad_json |-> <<"{", "\"", "m", "\"", ":", "1">>,
     \* a byte that is not UTF-8
     not_utf8 |-> <<"{", "\"", "m", "\"", ":", "1", "xFF", "}">>]

Frames == {Frame[name] : name \in DOMAIN Frame}

\* the transport addresses frames arrive from
Addresses == {"A1", "A2"}

\* what a capability callable or a callback does when invoked
Outcomes == {"true", "false", "raise"}

\* the messages the application hands to transmitMessage (talk.py, _execute)
Talk_call ==
    <<KV(TalkieKey.MESSAGE, IntV(MessageValue.CALL)), KV(TalkieKey.TO, StrV(Txt.Buzzer)),
      KV(TalkieKey.ACTION_, StrV(Txt.buzz))>>

Talk_ping ==
    <<KV(TalkieKey.MESSAGE, IntV(MessageValue.PING)), KV(TalkieKey.TO, StrV(Txt.Buzzer))>>

\* messages tagged as self-originated: one of every message-code that carries
\* its identity, and a CALL that is given its identity by hereSend
Talk_self ==
    {<<KV(TalkieKey.MESSAGE, IntV(code)), KV(TalkieKey.ACTION_, StrV(Txt.buzz)),
       KV(TalkieKey.BROADCAST, IntV(BroadcastValue.SELF)),
       KV(TalkieKey.IDENTITY, IntV(0))>> : code \in MessageValues}
    \cup {<<KV(TalkieKey.MESSAGE, IntV(MessageValue.CALL)),
             KV(TalkieKey.ACTION_, StrV(Txt.buzz)),
             KV(TalkieKey.BROADCAST, IntV(BroadcastValue.SELF))>>}

\* an ECHO that is given to transmitMessage without an identity
Talk_echo ==
    <<KV(TalkieKey.MESSAGE, IntV(MessageValue.ECHO)), KV(TalkieKey.TO, StrV(Txt.Buzzer))>>

TalkMessages == {Talk_call, Talk_ping} \cup Talk_self

\* the requests without identity among them
TalkRequests == {Talk_call, Talk_ping}

(***************************************************************************)
(* Actions                                                                 *)
(***************************************************************************)
NoInput == [op |-> "none", data |-> <<>>, ip_port |-> "none", now |-> 0,
            outcome |-> "none", message |-> EmptyDict, final |-> EmptyDict,
            pre |-> <<>>]

\* the engine fields a handler starts from, as an execution state working on message
Enter(message) ==
    [channel |-> channel, original |-> original_message,
     recoverable |-> recoverable_message, active |-> active_message,
     devices |-> devices_address, resends |-> resends, acked |-> acked,
     msg |-> message, trace |-> <<>>, exc |-> "none"]

\* the engine fields as the handler leaves them
Leave(es) ==
    /\ channel' = es.channel
    /\ original_message' = es.original
    /\ recoverable_message' = es.recoverable
    /\ active_message' = es.active
    /\ devices_address' = es.devices
    /\ resends' = es.resends
    /\ acked' = es.acked
    /\ trace' = es.trace

\* the engine fields a handler started from, kept for the properties
Pre == [channel |-> channel, original |-> original_message,
        recoverable |-> recoverable_message, active |-> active_message,
        devices |-> devices_address, resends |-> resends, acked |-> acked]

\* JsonTalkie.__init__ (lines 30-42), for each capability table
EngineInit ==
    /\ manifesto \in Manifestos
    /\ channel = 0
    /\ original_message = EmptyDict
    /\ recoverable_message = EmptyDict
    /\ active_message = FALSE
    /\ devices_address = <<>>
    /\ running = FALSE
    /\ thread = "none"
    /\ socket_open = FALSE
    /\ off_called = FALSE
    /\ off_pc = "idle"
    /\ resends = 0
    /\ acked = FALSE
    /\ trace = <<>>
    /\ last = NoInput

\* the capacity of the scratch buffer (broadcast_socket_serial.py, line 24)
BROADCAST_SOCKET_BUFFER_SIZE == 128

\* BroadcastSocket_Serial.__init__ (lines 43-45): idle, bytearray(128) is all zero
SerialInit ==
    /\ reading_serial = FALSE
    /\ received_buffer = [i \in 1..BROADCAST_SOCKET_BUFFER_SIZE |-> "x00"]
    /\ received_length = 0
    /\ returned = <<>>
    /\ frames = <<>>
    /\ io_failed = FALSE

\* the engine on a transport whose line carries no byte
Init ==
    /\ EngineInit
    /\ SerialInit
    /\ stream = <<>>
    /\ fed = "none"
    /\ codec_payload = <<>>
    /\ steps = <<>>
    /\ tasks = <<>>

\* on(): the transport opens or fails to; the receive task starts
On ==
    /\ last.op = "none"
    /\ thread = "none"
    /\ ~off_called
    /\ off_pc = "idle"
    /\ \E opened \in BOOLEAN :
        /\ socket_open' = opened
        /\ running' = opened
        /\ thread' = IF opened THEN "alive" ELSE thread
    /\ trace' = <<>>
    /\ last' = NoInput
    /\ UNCHANGED <<manifesto, channel, original_message, recoverable_message,
                   active_message, devices_address, off_called, off_pc, resends,
                   acked>>
    /\ UNCHANGED outside_engine

\* what no step of off() and no exit of the receive task changes
OffKeeps ==
    /\ trace' = <<>>
    /\ last' = NoInput
    /\ UNCHANGED <<manifesto, channel, original_message, recoverable_message,
                   active_message, devices_address, resends, acked>>
    /\ UNCHANGED outside_engine

\* off(), lines 55-56: the receive task is told to stop
OffSignal ==
    /\ last.op = "none"
    /\ off_pc = "idle"
    /\ running' = FALSE
    /\ off_called' = TRUE
    /\ off_pc' = "join"
    /\ UNCHANGED <<thread, socket_open>>
    /\ OffKeeps

\* OffJoin that does not wait for the receive task
OffJoin_nowait ==
    /\ last.op = "none"
    /\ off_pc = "join"
    /\ off_pc' = "close"
    /\ UNCHANGED <<running, thread, socket_open, off_called>>
    /\ OffKeeps

\* off(), lines 57-58: the caller joins the receive task if there is one,
\* which returns once the task has ended
OffJoin ==
    /\ last.op = "none"
    /\ off_pc = "join"
    /\ thread # "alive"
    /\ off_pc' = "close"
    /\ UNCHANGED <<running, thread, socket_open, off_called>>
    /\ OffKeeps

\* off(), line 59: the transport is closed, off() returns
OffClose ==
    /\ last.op = "none"
    /\ off_pc = "close"
    /\ socket_open' = FALSE
    /\ off_pc' = "idle"
    /\ UNCHANGED <<running, thread, off_called>>
    /\ OffKeeps

\* the loop test of listen (line 71) fails: the receive task ends
ListenExit ==
    /\ last.op = "none"
    /\ thread = "alive"
    /\ ~running
    /\ thread' = "exited"
    /\ UNCHANGED <<running, socket_open, off_called, off_pc>>
    /\ OffKeeps

\* one iteration of the listen loop in which receive() returns nothing
ListenIdle ==
    /\ last.op = "none"
    /\ thread = "alive"
    /\ running
    /\ \E now \in ClockValues :
        /\ Leave(check_timeout(Enter(EmptyDict), now))
        /\ last' = [NoInput EXCEPT !.op = "idle", !.now = now, !.pre = Pre]
    /\ UNCHANGED <<manifesto, running, thread, socket_open, off_called, off_pc>>
    /\ UNCHANGED outside_engine

\* Intake of every frame of the model, computed once
IntakeTable == [data \in Frames |-> Intake(data)]

\* a handler invoked a capability callable or a callback
Invoked(es) == \E j \in 1..Len(es.trace) : es.trace[j].op \in {"run", "echo", "error"}

\* the readings of message_id() that can differ in effect: the clock is read
\* for the age of an active RetrySlot and for the delay of a PING's ECHO
ClockChoices ==
    IF active_message \/ HasInt(original_message, TalkieKey.MESSAGE, MessageValue.PING)
    THEN ClockValues ELSE {0}

\* one iteration of the listen loop in which receive() returns a frame; an
\* exception the try statement does not catch ends the receive task
Listen ==
    /\ last.op = "none"
    /\ thread = "alive"
    /\ running
    /\ \E data \in Frames, ip_port \in Addresses, now \in ClockChoices :
        \* an outcome is drawn only where a callable or a callback is invoked
        \E returns \in {listen_frame(check_timeout(Enter(EmptyDict), now),
                                     IntakeTable[data], ip_port, now, "true")} :
        \E outcome \in IF Invoked(returns) THEN Outcomes ELSE {"true"} :
        \E es \in {IF outcome = "true" THEN returns
                   ELSE listen_frame(check_timeout(Enter(EmptyDict), now),
                                     IntakeTable[data], ip_port, now, outcome)} :
            /\ Leave(es)
            /\ thread' = IF es.exc # "none" THEN "crashed" ELSE thread
            /\ last' = [op |-> "listen", data |-> data, ip_port |-> ip_port,
                        now |-> now,
                        outcome |-> IF Invoked(es) THEN outcome ELSE "none",
                        message |-> IntakeTable[data].decoded.msg,
                        final |-> es.msg, pre |-> Pre]
    /\ UNCHANGED <<manifesto, running, socket_open, off_called, off_pc>>
    /\ UNCHANGED outside_engine

\* the application calls transmitMessage(message), between on() and off();
\* the clock is read for a message without identity and for the delay of a
\* PING's ECHO
Talk ==
    /\ last.op = "none"
    /\ thread \in {"alive", "crashed"}
    /\ ~off_called
    /\ \E message \in TalkMessages :
       \E now \in IF /\ Has(message, TalkieKey.IDENTITY)
                      /\ ~HasInt(original_message, TalkieKey.MESSAGE, MessageValue.PING)
                   THEN {0} ELSE ClockValues :
        \* an outcome is drawn only where a callable or a callback is invoked
        \E returns \in {transmitMessage(Enter(message), now, now, "true")} :
        \E outcome \in IF Invoked(returns) THEN Outcomes ELSE {"true"} :
        \E es \in {IF outcome = "true" THEN returns
                   ELSE transmitMessage(Enter(message), now, now, outcome)} :
            /\ Leave(es)
            /\ last' = [op |-> "talk", data |-> <<>>, ip_port |-> "none",
                        now |-> now,
                        outcome |-> IF Invoked(es) THEN outcome ELSE "none",
                        message |-> message, final |-> es.msg, pre |-> Pre]
    /\ UNCHANGED <<manifesto, running, thread, socket_open, off_called, off_pc>>
    /\ UNCHANGED outside_engine

\* the handler that has just run returns (the listen loop goes back to line
\* 71, transmitMessage returns to the application): its record is dropped
Return ==
    /\ last.op \notin {"none", "matched", "raced"}
    /\ trace' = <<>>
    /\ last' = NoInput
    /\ UNCHANGED <<manifesto, channel, original_message, recoverable_message,
                   active_message, devices_address, running, thread, socket_open,
                   off_called, off_pc, resends, acked>>
    /\ UNCHANGED outside_engine

Next ==
    \/ On
    \/ OffSignal
    \/ OffJoin
    \/ OffClose
    \/ ListenIdle
    \/ Listen
    \/ ListenExit
    \/ Talk
    \/ Return

Spec == Init /\ [][Next]_vars

(***************************************************************************)
(* The RetrySlot between two threads.  transmitMessage is called by the    *)
(* application's thread (talk.py, _execute) while the receive task runs    *)
(* listen; the engine takes no lock, so the caller can run between any two *)
(* lines of the task.  The task's handling of an ERROR(CHECKSUM) is taken  *)
(* in two steps, the match of lines 116-126 and the resend of lines        *)
(* 128-139, and the caller can send between them.                          *)
(***************************************************************************)

\* transmitMessage called with a message no command of talk.py builds
TalkReply ==
    /\ last.op = "none"
    /\ thread \in {"alive", "crashed"}
    /\ ~off_called
    /\ \E now \in ClockValues :
        \E es \in {transmitMessage(Enter(Talk_echo), now, now, "true")} :
            /\ Leave(es)
            /\ last' = [op |-> "talk", data |-> <<>>, ip_port |-> "none",
                        now |-> now, outcome |-> "none",
                        message |-> Talk_echo, final |-> es.msg, pre |-> Pre]
    /\ UNCHANGED <<manifesto, running, thread, socket_open, off_called, off_pc>>
    /\ UNCHANGED outside_engine

\* the receive task reads a frame and finds, at line 126, a CHECKSUM error
\* for the message of the active RetrySlot
ListenMatch ==
    /\ last.op = "none"
    /\ thread = "alive"
    /\ running
    /\ \E data \in Frames, ip_port \in Addresses, now \in ClockValues :
        /\ IntakeTable[data].exc = "none"
        /\ validate_message(IntakeTable[data].decoded, channel)
        /\ \E es \in {[check_timeout(Enter(EmptyDict), now)
                           EXCEPT !.msg = IntakeTable[data].decoded.msg]} :
            /\ matches_slot(es)
            /\ Leave(es)
            /\ last' = [op |-> "matched", data |-> data, ip_port |-> ip_port,
                        now |-> now, outcome |-> "none", message |-> es.msg,
                        final |-> EmptyDict, pre |-> Pre]
    /\ UNCHANGED <<manifesto, running, thread, socket_open, off_called, off_pc>>
    /\ UNCHANGED outside_engine

\* the application's transmitMessage of a request runs while the receive
\* task stands between line 126 and line 128; final keeps the message as it
\* was sent and stored
TalkRaced ==
    /\ last.op = "matched"
    /\ ~off_called
    /\ \E message \in TalkRequests, now \in ClockValues :
        \E es \in {transmitMessage(Enter(message), now, now, "true")} :
            /\ Leave(es)
            /\ last' = [last EXCEPT !.op = "raced", !.final = es.msg]
    /\ UNCHANGED <<manifesto, running, thread, socket_open, off_called, off_pc>>
    /\ UNCHANGED outside_engine

\* the receive task goes on from line 128 with the RetrySlot as it is now
ListenResume ==
    /\ last.op \in {"matched", "raced"}
    /\ \E outcome \in Outcomes :
        \E es \in {listen_resume(Enter(last.message), last.ip_port, last.now, outcome)} :
            /\ Leave(es)
            /\ thread' = IF es.exc # "none" THEN "crashed" ELSE thread
            /\ last' = [last EXCEPT !.op = "resumed",
                                    !.outcome = IF Invoked(es) THEN outcome ELSE "none"]
    /\ UNCHANGED <<manifesto, running, socket_open, off_called, off_pc>>
    /\ UNCHANGED outside_engine

\* the engine of talk.py
SlotInit ==
    /\ Init
    /\ manifesto = Manifesto_CommandLine

SlotNext ==
    \/ On
    \/ Listen
    \/ Talk
    \/ TalkReply
    \/ ListenMatch
    \/ TalkRaced
    \/ ListenResume
    \/ Return

SlotSpec == SlotInit /\ [][SlotNext]_vars

(***************************************************************************)
(* Frame assembly: BroadcastSocket_Serial.receive                          *)
(* (broadcast_socket_serial.py 190-235), the port being open.  The bytes   *)
(* of the line are one-character strings; the framer compares them with    *)
(* the braces and the backslash only.                                      *)
(***************************************************************************)
\* the fields receive() works on, and no return value yet
FramerState ==
    [reading |-> reading_serial, buffer |-> received_buffer,
     length |-> received_length, ret |-> <<>>]

\* lines 209-215: the closing brace is stored, the frame returned
complete_frame(fs, c) ==
    [reading |-> FALSE,
     buffer |-> [fs.buffer EXCEPT ![fs.length + 1] = c],
     length |-> 0,
     ret |-> <<Append(Slice(fs.buffer, 0, fs.length), c)>>]

\* receive_byte that takes every closing brace for the end of the frame
receive_byte_unescaped(fs, c) ==
    IF fs.reading
    THEN IF fs.length < BROADCAST_SOCKET_BUFFER_SIZE
         THEN IF c = "}" /\ fs.length # 0
              THEN complete_frame(fs, c)
              ELSE [fs EXCEPT !.buffer[fs.length + 1] = c, !.length = @ + 1]
         ELSE [fs EXCEPT !.reading = FALSE, !.length = 0]
    ELSE IF c = "{"
         THEN [fs EXCEPT !.reading = TRUE, !.buffer[1] = c, !.length = 1]
    ELSE fs

\* lines 200-227: one byte c read from the port
receive_byte(fs, c) ==
    IF fs.reading
    THEN IF fs.length < BROADCAST_SOCKET_BUFFER_SIZE
         THEN IF c = "}" /\ fs.length # 0 /\ At(fs.buffer, fs.length - 1) # "\\"
              THEN complete_frame(fs, c)
              ELSE [fs EXCEPT !.buffer[fs.length + 1] = c, !.length = @ + 1]
         ELSE [fs EXCEPT !.reading = FALSE, !.length = 0]
    ELSE IF c = "{"
         THEN [fs EXCEPT !.reading = TRUE, !.buffer[1] = c, !.length = 1]
    ELSE fs

RECURSIVE receive_loop(_, _, _)

\* the loop goes on after a byte unless the byte completed a frame
receive_next(fs, waiting, n) ==
    IF fs.ret # <<>> THEN [fs |-> fs, read |-> n]
    ELSE receive_loop(fs, waiting, n)

\* lines 195-229: the bytes waiting in the port are read one by one, n of
\* them so far, until one completes a frame or none is left
receive_loop(fs, waiting, n) ==
    IF n >= Len(waiting) THEN [fs |-> fs, read |-> n]
    ELSE receive_next(receive_byte(fs, waiting[n + 1]), waiting, n + 1)

\* receive_except that leaves the cursor where the exception found it
receive_except_keeps_cursor(fs) == [fs EXCEPT !.reading = FALSE, !.ret = <<>>]

\* lines 231-235: an exception resets the framer, receive() returns None
receive_except(fs) == [fs EXCEPT !.reading = FALSE, !.length = 0, !.ret = <<>>]

\* the most bytes that wait in the port when receive() is called
MaxChunk == 20

\* self._socket.in_waiting over a call of receive(): how many bytes of the
\* line are there to be read
InWaiting == {k \in 0..Len(stream) : k <= MaxChunk}

\* n bytes repeated
Fill(c, n) == [i \in 1..n |-> c]

Message_m1 == <<"{", "\"", "m", "\"", ":", "1", "}">>

Message_m2 == <<"{", "\"", "m", "\"", ":", "2", "}">>

\* the byte streams the line carries in this model
Stream ==
    [\* ..{"m":1,"t":"*"}..
     scenario |->
         <<".", ".", "{", "\"", "m", "\"", ":", "1", ",", "\"", "t", "\"", ":",
           "\"", "*", "\"", "}", ".", ".">>,
     \* x{"a":"\}"}y   a closing brace behind the escape character
     escaped |->
         <<"x", "{", "\"", "a", "\"", ":", "\"", "\\", "}", "\"", "}", "y">>,
     \* {"v":{"c":5}}   a nested object
     nested |->
         <<"{", "\"", "v", "\"", ":", "{", "\"", "c", "\"", ":", "5", "}", "}">>,
     \* }}{"m":1}   closing braces before any opening one
     closing_first |-> <<"}", "}">> \o Message_m1,
     \* a message of 128 bytes, as long as the scratch buffer
     full |-> <<"{">> \o Fill("a", BROADCAST_SOCKET_BUFFER_SIZE - 2) \o <<"}", "z">>,
     \* a message of 129 bytes
     too_long |-> <<"{">> \o Fill("a", BROADCAST_SOCKET_BUFFER_SIZE - 1) \o <<"}">>,
     \* 130 bytes without a closing brace, then a message
     overflow_then |->
         <<"{">> \o Fill("a", BROADCAST_SOCKET_BUFFER_SIZE + 1) \o Message_m1,
     \* 128 bytes without a closing brace, then two messages
     overflow_at_brace |->
         <<"{">> \o Fill("a", BROADCAST_SOCKET_BUFFER_SIZE - 1)
             \o Message_m1 \o Message_m2]

\* a serial transport whose line carries one of the streams
FramerInit ==
    /\ EngineInit
    /\ manifesto = Manifesto_Main
    /\ SerialInit
    /\ fed \in DOMAIN Stream
    /\ stream = Stream[fed]
    /\ codec_payload = <<>>
    /\ steps = <<>>
    /\ tasks = <<>>

\* the framer fields as a call of receive() leaves them, r being the state
\* and what the call has read of the line
FramerLeave(r) ==
    /\ reading_serial' = r.fs.reading
    /\ received_buffer' = r.fs.buffer
    /\ received_length' = r.fs.length
    /\ returned' = r.fs.ret
    /\ frames' = frames \o r.fs.ret
    /\ stream' = Slice(stream, r.read, Len(stream))

\* receive() with k bytes waiting in the port
Receive ==
    /\ \E k \in InWaiting :
          FramerLeave(receive_loop(FramerState, Slice(stream, 0, k), 0))
    /\ UNCHANGED <<fed, io_failed>>
    /\ UNCHANGED engine_vars
    /\ UNCHANGED <<codec_vars, tasks>>

\* receive() in which the port raises once k bytes have been read, none of
\* which completed a frame
ReceiveError ==
    /\ \E k \in InWaiting :
          /\ receive_loop(FramerState, Slice(stream, 0, k), 0).fs.ret = <<>>
          /\ FramerLeave([fs |-> receive_except(
                                   receive_loop(FramerState, Slice(stream, 0, k), 0).fs),
                          read |-> k])
    /\ io_failed' = TRUE
    /\ UNCHANGED fed
    /\ UNCHANGED engine_vars
    /\ UNCHANGED <<codec_vars, tasks>>

FramerNext == Receive \/ ReceiveError

FramerSpec == FramerInit /\ [][FramerNext]_vars

(***************************************************************************)
(* The field codec on its own: a buffer, and calls of the static methods   *)
(* on it one after the other.                                              *)
(***************************************************************************)
\* the calls made on one buffer
MaxCalls == 2

\* messages whose serializations the codec is given: the key looked for
\* first, in the middle, last, alone and absent; numbers, a text, true and
\* null as values
CodecMessage ==
    [empty |-> EmptyDict,
     alone |-> <<KV(<<"m">>, IntV(1))>>,
     pair |-> <<KV(<<"m">>, IntV(1)), KV(<<"i">>, IntV(20))>>,
     long_first |-> <<KV(<<"i">>, IntV(12345)), KV(<<"m">>, IntV(1))>>,
     sum_first |-> <<KV(<<"c">>, IntV(123)), KV(<<"m">>, IntV(1))>>,
     sum_middle |-> <<KV(<<"m">>, IntV(1)), KV(<<"c">>, IntV(123)),
                      KV(<<"i">>, IntV(5))>>,
     sum_last |-> <<KV(<<"m">>, IntV(3)), KV(<<"t">>, StrV(<<"B", "z">>)),
                    KV(<<"i">>, IntV(7)), KV(<<"c">>, IntV(4660))>>,
     text |-> <<KV(<<"t">>, StrV(<<"B", "z">>)), KV(<<"m">>, IntV(1))>>,
     flag |-> <<KV(<<"m">>, BoolV(TRUE)), KV(<<"i">>, IntV(1))>>,
     nothing |-> <<KV(<<"i">>, IntV(1)), KV(<<"m">>, NullV)>>]

CodecMessages == {CodecMessage[name] : name \in DOMAIN CodecMessage}

\* the buffers the codec starts from: the serializations, the empty buffer
\* and buffers of odd and even length that are no object
CodecBuffers ==
    {encode(m) : m \in CodecMessages}
        \cup {<<>>, <<"a">>, <<"a", "b">>, <<"xFF", "xFF", "xFF">>,
              <<"{", "\"", "c", "\"", ":">>}

\* the keys looked for and the numbers written
CodecKeys == {"m", "i", "c", "x"}

CodecNumbers == {0, 7, 120, 65535}

\* one call of the codec, as the history keeps it
Call(op, key, number, r, value) ==
    [op |-> op, key |-> key, number |-> number, before |-> codec_payload,
     after |-> r.payload, ret |-> value, exc |-> r.exc]

CodecInit ==
    /\ EngineInit
    /\ manifesto = Manifesto_Main
    /\ SerialInit
    /\ stream = <<>>
    /\ fed = "none"
    /\ codec_payload \in CodecBuffers
    /\ steps = <<>>
    /\ tasks = <<>>

\* remove(json_payload, key)
CodecRemove ==
    /\ Len(steps) < MaxCalls
    /\ \E key \in CodecKeys :
        \E r \in {remove(codec_payload, key, 4)} :
            /\ codec_payload' = r.payload
            /\ steps' = Append(steps, Call("remove", key, 0, r, r.ret))
    /\ UNCHANGED <<engine_vars, framer_vars, tasks>>

\* set_number(json_payload, key, number)
CodecSetNumber ==
    /\ Len(steps) < MaxCalls
    /\ \E key \in CodecKeys, number \in CodecNumbers :
        \E r \in {set_number(codec_payload, key, number, 4)} :
            /\ codec_payload' = r.payload
            /\ steps' = Append(steps, Call("set_number", key, number, r,
                                           IF r.ok THEN 1 ELSE 0))
    /\ UNCHANGED <<engine_vars, framer_vars, tasks>>

\* get_number(json_payload, key)
CodecGetNumber ==
    /\ Len(steps) < MaxCalls
    /\ \E key \in CodecKeys :
        steps' = Append(steps, Call("get_number", key, 0,
                                    [payload |-> codec_payload, exc |-> "none"],
                                    get_number(codec_payload, key, 4)))
    /\ UNCHANGED codec_payload
    /\ UNCHANGED <<engine_vars, framer_vars, tasks>>

\* generate_checksum(json_payload)
CodecChecksum ==
    /\ Len(steps) < MaxCalls
    /\ steps' = Append(steps, Call("generate_checksum", "c", 0,
                                   [payload |-> codec_payload, exc |-> "none"],
                                   generate_checksum(codec_payload)))
    /\ UNCHANGED codec_payload
    /\ UNCHANGED <<engine_vars, framer_vars, tasks>>

\* extract_checksum(json_payload)
CodecExtract ==
    /\ Len(steps) < MaxCalls
    /\ \E r \in {extract_checksum(codec_payload)} :
        /\ codec_payload' = r.payload
        /\ steps' = Append(steps, Call("extract_checksum", "c", r.checksum,
                                       [payload |-> r.payload, exc |-> "none"],
                                       r.ret))
    /\ UNCHANGED <<engine_vars, framer_vars, tasks>>

CodecNext ==
    \/ CodecRemove
    \/ CodecSetNumber
    \/ CodecGetNumber
    \/ CodecChecksum
    \/ CodecExtract

CodecSpec == CodecInit /\ [][CodecNext]_vars

(***************************************************************************)
(* on() and off() called by the application in any order, and the receive  *)
(* tasks they start and stop.  The application is one thread: a call of    *)
(* on() or off() begins when the one before has returned.                  *)
(***************************************************************************)
\* the calls of on() that start a task
MaxOn == 3

\* what no call of on() or off() and no step of a receive task changes
TaskKeeps ==
    /\ UNCHANGED <<manifesto, channel, original_message, recoverable_message,
                   active_message, devices_address, thread, resends, acked, trace,
                   last>>
    /\ UNCHANGED <<framer_vars, codec_vars>>

\* on(), lines 44-51: the transport opens or fails to; if it opens, running
\* is set and a new receive task is created and started, whatever tasks
\* there are
OnCall ==
    /\ off_pc = "idle"
    /\ Len(tasks) < MaxOn
    /\ \E opened \in BOOLEAN :
        /\ socket_open' = (socket_open \/ opened)
        /\ running' = (running \/ opened)
        /\ tasks' = IF opened THEN Append(tasks, "waiting") ELSE tasks
    /\ UNCHANGED <<off_called, off_pc>>
    /\ TaskKeeps

\* off(), lines 55-56: the receive tasks are told to stop
OffCall ==
    /\ off_pc = "idle"
    /\ running' = FALSE
    /\ off_called' = TRUE
    /\ off_pc' = "join"
    /\ UNCHANGED <<socket_open, tasks>>
    /\ TaskKeeps

\* off(), lines 57-58: the caller joins self._thread, the task started last,
\* if there is one
OffJoinLast ==
    /\ off_pc = "join"
    /\ tasks # <<>> => tasks[Len(tasks)] = "exited"
    /\ off_pc' = "close"
    /\ UNCHANGED <<running, socket_open, off_called, tasks>>
    /\ TaskKeeps

\* off(), line 59: the transport is closed, off() returns
OffReturn ==
    /\ off_pc = "close"
    /\ socket_open' = FALSE
    /\ off_pc' = "idle"
    /\ UNCHANGED <<running, off_called, tasks>>
    /\ TaskKeeps

\* a receive task passes the loop test of listen (line 71) and enters the
\* loop body, where it reads and writes the engine's fields
TaskEnters ==
    /\ running
    /\ \E j \in 1..Len(tasks) :
        /\ tasks[j] = "waiting"
        /\ tasks' = [tasks EXCEPT ![j] = "handling"]
    /\ UNCHANGED <<running, socket_open, off_called, off_pc>>
    /\ TaskKeeps

\* a receive task ends an iteration of the loop (lines 72-143)
TaskIterates ==
    /\ \E j \in 1..Len(tasks) :
        /\ tasks[j] = "handling"
        /\ tasks' = [tasks EXCEPT ![j] = "waiting"]
    /\ UNCHANGED <<running, socket_open, off_called, off_pc>>
    /\ TaskKeeps

\* the loop test of listen (line 71) fails: the task ends
TaskExits ==
    /\ ~running
    /\ \E j \in 1..Len(tasks) :
        /\ tasks[j] = "waiting"
        /\ tasks' = [tasks EXCEPT ![j] = "exited"]
    /\ UNCHANGED <<running, socket_open, off_called, off_pc>>
    /\ TaskKeeps

TaskInit == Init /\ manifesto = Manifesto_Main

TaskNext ==
    \/ OnCall
    \/ OffCall
    \/ OffJoinLast
    \/ OffReturn
    \/ TaskEnters
    \/ TaskIterates
    \/ TaskExits

TaskSpec == TaskInit /\ [][TaskNext]_vars

(***************************************************************************)
(* Properties.  They are read in the state a handler leaves before it      *)
(* returns: last is its input and the engine fields it started from, trace *)
(* the events it caused, the engine variables what it made of them.        *)
(***************************************************************************)
\* what the transport was handed by the handler that has just run
Sends == SelectSeq(trace, LAMBDA ev : ev.op = "send")

\* the invocations of op ("run", "echo", "error") by the handler that has just run
Calls(op) == SelectSeq(trace, LAMBDA ev : ev.op = op)

\* the listen loop has just handled a frame that validate_message accepted
Validated ==
    /\ last.op = "listen"
    /\ IntakeTable[last.data].exc = "none"
    /\ validate_message(IntakeTable[last.data].decoded, last.pre.channel)

\* the frame just handled carries a checksum field that differs from the
\* checksum computed over the frame
ChecksumMismatch ==
    /\ last.op = "listen"
    /\ get_colon_position(last.data, "c", 4) # 0
    /\ IntakeTable[last.data].exc = "none"
    /\ IntakeTable[last.data].message_checksum # IntakeTable[last.data].checksum

\* a request of message-code code has just been handled: a validated frame
\* that is not tagged as self-originated
Request(code) ==
    /\ Validated
    /\ HasInt(last.message, TalkieKey.MESSAGE, code)
    /\ ~HasInt(last.message, TalkieKey.BROADCAST, BroadcastValue.SELF)

\* an ERROR frame of kind CHECKSUM has just been handled
ChecksumErrorHandled ==
    /\ Validated
    /\ HasInt(last.message, TalkieKey.MESSAGE, MessageValue.ERROR)
    /\ HasInt(last.message, TalkieKey.ERROR, ErrorValue.CHECKSUM)

\* the identity of the message the RetrySlot held when the handler started
SlotIdentity == Get(last.pre.recoverable, TalkieKey.IDENTITY).int

\* the RetrySlot was active once the timeout check of the iteration was done
SlotActiveAtIntake ==
    last.pre.active /\ (last.now - SlotIdentity) % 65536 <= 500

\* the frame just handled carries the identity of the RetrySlot's message
MatchesSlot ==
    /\ Has(last.pre.recoverable, TalkieKey.IDENTITY)
    /\ HasInt(last.message, TalkieKey.IDENTITY, SlotIdentity)

\* C1: whatever frame the transport delivers and whatever a callable or a
\* callback does, the listen loop completes the iteration and goes on: the
\* receive task is alive after every frame, and it has ended only if off()
\* was called.
C1_ListenLoopSurvives ==
    /\ last.op = "listen" => thread = "alive"
    /\ thread \in {"exited", "crashed"} => off_called

\* C2: a frame whose checksum field differs from the checksum computed over
\* it, its other fields being valid, is answered with an ERROR message of
\* error kind CHECKSUM addressed to the frame's sender.
C2_ChecksumErrorReply ==
    ChecksumMismatch /\ Validated /\ Has(last.message, TalkieKey.FROM) =>
        \E j \in 1..Len(Sends) :
            /\ HasInt(Sends[j].msg, TalkieKey.MESSAGE, MessageValue.ERROR)
            /\ HasInt(Sends[j].msg, TalkieKey.ERROR, ErrorValue.CHECKSUM)
            /\ Has(Sends[j].msg, TalkieKey.TO)
            /\ ValEq(Get(Sends[j].msg, TalkieKey.TO), Get(last.message, TalkieKey.FROM))

\* C3: a frame whose checksum field differs from the computed checksum is
\* never dispatched as a valid request: no capability callable is invoked for
\* it, the channel is not changed by it, and no ECHO is sent for it.
C3_CorruptNeverDispatched ==
    ChecksumMismatch =>
        /\ Calls("run") = <<>>
        /\ channel = last.pre.channel
        /\ \A j \in 1..Len(Sends) :
              ~HasInt(Sends[j].msg, TalkieKey.MESSAGE, MessageValue.ECHO)

\* C4: for one recoverable message the engine retransmits exactly once over
\* the ERROR(CHECKSUM) frames that match the active RetrySlot: the first
\* matching error sends the stored message again, the second one clears the
\* slot and transmits nothing, later ones find no active slot and transmit
\* nothing.
C4_RetransmitsExactlyOnce ==
    /\ resends <= 1
    /\ ChecksumErrorHandled /\ SlotActiveAtIntake /\ MatchesSlot =>
          IF last.pre.resends = 0
          THEN Len(Sends) = 1 /\ resends = 1
          ELSE Sends = <<>> /\ ~active_message
    /\ ChecksumErrorHandled /\ ~last.pre.active => Sends = <<>>

\* C5: once an ECHO carrying the identity of the stored recoverable message
\* has arrived, the RetrySlot is cleared, and a later ERROR(CHECKSUM) carrying
\* that identity causes no retransmission.
C5_AckClearsSlot ==
    ChecksumErrorHandled /\ last.pre.acked /\ MatchesSlot => Sends = <<>>

\* C6: at the top of an intake iteration an active RetrySlot whose age, the
\* clock minus the stored identity modulo 65536, is greater than 500 is
\* deactivated, with no transmission, and one whose age is at most 500 stays
\* active; a clock of 0 and a stored identity of 65535 give age 1; once the
\* slot is deactivated an ERROR(CHECKSUM) for that identity causes no
\* retransmission.
C6_RetryTimeout ==
    /\ Age(0, 65535) = 1
    /\ last.op \in {"idle", "listen"} /\ last.pre.active =>
          IF (last.now - SlotIdentity) % 65536 > 500
          THEN /\ ~active_message
               /\ last.op = "idle" => trace = <<>>
               /\ ChecksumErrorHandled => Sends = <<>>
          ELSE /\ last.op = "idle" => active_message /\ trace = <<>>
               /\ last.op = "listen"
                      /\ ~HasInt(last.message, TalkieKey.MESSAGE, MessageValue.ERROR)
                    => active_message
    /\ ChecksumErrorHandled /\ ~last.pre.active => Sends = <<>> /\ ~active_message

\* C6 happens: an idle iteration at clock 500 found the slot of a message of
\* identity 65535 active, age 501 across the wrap, and deactivated it
C6_Witness ==
    /\ last.op = "idle"
    /\ last.pre.active
    /\ last.now = 500
    /\ SlotIdentity = 65535
    /\ ~active_message

\* C7: an ERROR(CHECKSUM) frame that arrives while no RetrySlot is active,
\* before the engine has ever sent a message included, or whose identity
\* differs from the slot's, causes no transmission and leaves the RetrySlot
\* as it was; the frame is still handed once to the error callback.
C7_UnmatchedErrorIgnored ==
    ChecksumErrorHandled /\ ~(SlotActiveAtIntake /\ MatchesSlot) =>
        /\ Sends = <<>>
        /\ recoverable_message = last.pre.recoverable
        /\ active_message = SlotActiveAtIntake
        /\ Len(Calls("error")) = 1

\* the CALL just handled names an entry of the "run" table
KnownAction ==
    /\ "run" \in manifesto.groups
    /\ Has(last.message, TalkieKey.ACTION_)
    /\ InGroup(manifesto.run, Get(last.message, TalkieKey.ACTION_))

\* C8: for every capability table, a CALL request whose action is no entry of
\* the "run" table produces exactly one transmitted ECHO, with roger-code
\* SAY_AGAIN, and no capability callable is invoked.
C8_UnknownActionSayAgain ==
    Request(MessageValue.CALL) /\ ~KnownAction =>
        /\ Len(Sends) = 1
        /\ HasInt(Sends[1].msg, TalkieKey.MESSAGE, MessageValue.ECHO)
        /\ HasInt(Sends[1].msg, TalkieKey.ROGER, RogerValue.SAY_AGAIN)
        /\ Calls("run") = <<>>

AllEntries == manifesto.run \o manifesto.set \o manifesto.get

\* C10: a LIST request causes exactly one transmitted ECHO per capability
\* entry and nothing else, |run| + |set| + |get| in all (3 for the table with
\* 2 "run" entries and 1 "get" entry), each carrying its entry's name and
\* description.
C10_ListOneEchoPerEntry ==
    Request(MessageValue.LIST) =>
        /\ Len(trace) = Len(manifesto.run) + Len(manifesto.set) + Len(manifesto.get)
        /\ manifesto = Manifesto_RunGet => Len(trace) = 3
        /\ \A j \in 1..Len(trace) :
              /\ trace[j].op = "send"
              /\ HasInt(trace[j].msg, TalkieKey.MESSAGE, MessageValue.ECHO)
              /\ Has(trace[j].msg, TalkieKey.ACTION_)
              /\ Get(trace[j].msg, TalkieKey.ACTION_) = StrV(AllEntries[j].name)
              /\ Has(trace[j].msg, Key_0)
              /\ Get(trace[j].msg, Key_0) = StrV(AllEntries[j].description)

\* C10 happens: a LIST was handled by the table with 2 "run" entries and 1
\* "get" entry, and three messages went out
C10_Witness ==
    /\ Request(MessageValue.LIST)
    /\ manifesto = Manifesto_RunGet
    /\ Len(Sends) = 3

\* the group of the j-th entry of AllEntries
GroupAt(j) ==
    IF j <= Len(manifesto.run) THEN "run"
    ELSE IF j <= Len(manifesto.run) + Len(manifesto.set) THEN "set"
    ELSE "get"

\* C11: every ECHO sent for a LIST request tells the group of its entry in a
\* field of its own: the ECHOs of two entries of different groups differ in
\* more than the description text, so that set duration and get duration are
\* told apart.
C11_ListEchoTellsGroup ==
    Request(MessageValue.LIST) /\ Len(Sends) = Len(AllEntries) =>
        \A j, k \in 1..Len(Sends) :
            GroupAt(j) # GroupAt(k) =>
                SelectSeq(Sends[j].msg, LAMBDA e : e.k # Key_0)
                    # SelectSeq(Sends[k].msg, LAMBDA e : e.k # Key_0)

\* C12: the echo callback is invoked for an ECHO only when an original
\* message has been recorded and the ECHO carries that message's identity.
C12_EchoOnlyForOriginal ==
    \A j \in 1..Len(Calls("echo")) :
        /\ Has(original_message, TalkieKey.IDENTITY)
        /\ ValEq(Get(Calls("echo")[j].msg, TalkieKey.IDENTITY),
                 Get(original_message, TalkieKey.IDENTITY))

\* the application has just transmitted a message tagged as self-originated
SelfTransmitted ==
    /\ last.op = "talk"
    /\ HasInt(last.message, TalkieKey.BROADCAST, BroadcastValue.SELF)

\* C13: transmitting a message tagged as self-originated, of any message-code,
\* hands nothing to the transport, puts no checksum into the message, and
\* leaves the AddressCache and the RetrySlot as they were; the message and
\* its replies go through local dispatch only, which comes to an end.
C13_SelfStaysLocal ==
    SelfTransmitted =>
        /\ Sends = <<>>
        /\ Calls("here") # <<>>
        /\ \A j \in 1..Len(trace) : ~Has(trace[j].msg, TalkieKey.CHECKSUM)
        /\ devices_address = last.pre.devices
        /\ recoverable_message = last.pre.recoverable
        /\ active_message = last.pre.active

\* C13 happens: a self-originated CALL of "buzz" went through local dispatch
\* twice around the callable and reached the echo callback, with a RetrySlot
\* active
C13_Witness ==
    /\ SelfTransmitted
    /\ last.pre.active
    /\ Len(Calls("here")) = 3
    /\ Len(Calls("run")) = 1
    /\ Len(Calls("echo")) = 2

\* a validated frame that is answered, if at all, by replies: it is neither
\* tagged as self-originated nor ERROR-coded, and names a sender X that is a
\* text other than the local name
FromPeer ==
    /\ Validated
    /\ ~HasInt(last.message, TalkieKey.BROADCAST, BroadcastValue.SELF)
    /\ ~HasInt(last.message, TalkieKey.MESSAGE, MessageValue.ERROR)
    /\ Has(last.message, TalkieKey.FROM)
    /\ IsStr(Get(last.message, TalkieKey.FROM))
    /\ Get(last.message, TalkieKey.FROM) # StrV(manifesto.name)

\* message has from as its from field and, if a receiver is expected, that
\* receiver as its to field
Addressed(message, from, receivers) ==
    /\ Has(message, TalkieKey.FROM)
    /\ Get(message, TalkieKey.FROM) = from
    /\ \A to \in receivers :
          Has(message, TalkieKey.TO) /\ Get(message, TalkieKey.TO) = to

\* C14: every message remoteSend encodes into a frame for the transport has
\* its from field equal to the local talker name; a message that entered
\* remoteSend with a from value X other than the local name leaves with its
\* to field equal to X, so that the replies to a frame from X are addressed
\* to X.
C14_FromLocalToSender ==
    \A j \in 1..Len(Sends) :
        Addressed(Sends[j].msg, StrV(manifesto.name),
                  IF FromPeer THEN {Get(last.message, TalkieKey.FROM)} ELSE {})

\* C14 happens: a frame from Buzzer was answered with a frame from Main to
\* Buzzer
C14_Witness ==
    /\ FromPeer
    /\ Len(Sends) >= 1
    /\ Get(Sends[1].msg, TalkieKey.FROM) = StrV(Txt.Main)
    /\ Get(Sends[1].msg, TalkieKey.TO) = StrV(Txt.Buzzer)

\* the AddressCache as remoteSend finds it in the handler that has just run:
\* the listen loop records the sender's address after the resend of an ERROR
\* frame and before the replies of any other frame
CacheAtSend ==
    IF last.op = "listen" /\ HasInt(last.message, TalkieKey.MESSAGE, MessageValue.ERROR)
    THEN last.pre.devices
    ELSE devices_address

\* C15: remoteSend sends to the cached address of the message's to name when
\* the AddressCache holds one and broadcasts otherwise; so every reply to a
\* validated frame that came from address A with a from name X other than the
\* local name goes to A and is never broadcast.
C15_DirectToCachedAddress ==
    /\ \A j \in 1..Len(Sends) :
          Sends[j].addr =
              IF /\ Has(Sends[j].msg, TalkieKey.TO)
                 /\ DevHas(CacheAtSend, Get(Sends[j].msg, TalkieKey.TO))
              THEN DevGet(CacheAtSend, Get(Sends[j].msg, TalkieKey.TO))
              ELSE "broadcast"
    /\ FromPeer => \A j \in 1..Len(Sends) : Sends[j].addr = last.ip_port

\* C15 happens: Buzzer's address was cached as A1, a frame from Buzzer came
\* from A2 and was answered at A2
C15_Witness ==
    /\ FromPeer
    /\ last.ip_port = "A2"
    /\ DevHas(last.pre.devices, StrV(Txt.Buzzer))
    /\ DevGet(last.pre.devices, StrV(Txt.Buzzer)) = "A1"
    /\ Len(Sends) >= 1
    /\ Sends[1].addr = "A2"

\* the frame just handled left the engine as it was: nothing was invoked or
\* transmitted, and the AddressCache, the RetrySlot (but for the timeout
\* check at the top of the iteration) and the channel are unchanged
Dropped ==
    /\ trace = <<>>
    /\ devices_address = last.pre.devices
    /\ recoverable_message = last.pre.recoverable
    /\ active_message = SlotActiveAtIntake
    /\ channel = last.pre.channel

\* the frame just handled decoded to a key/value object
DecodedObject ==
    /\ last.op = "listen"
    /\ IntakeTable[last.data].exc = "none"
    /\ IntakeTable[last.data].decoded.kind = "dict"

\* v is an integer (no bool) equal to n
IsInteger(v, n) == DOMAIN v = {"int"} /\ v.int = n

\* C16: a frame that carries a to field is dispatched only if to is an
\* integer equal to the channel number or a text equal to the local talker
\* name; for any other to value nothing is invoked or transmitted and the
\* AddressCache, the RetrySlot and the channel are unchanged.  A frame
\* without a to field is accepted.
C16_NotForMeDropped ==
    /\ DecodedObject /\ Has(last.message, TalkieKey.TO)
          /\ ~IsInteger(Get(last.message, TalkieKey.TO), last.pre.channel)
          /\ Get(last.message, TalkieKey.TO) # StrV(manifesto.name)
        => Dropped
    /\ last.op = "listen" /\ last.data = Frame.talk_to_all => Len(Sends) = 1

\* C17: a frame whose message-code is missing, is no integer or is an integer
\* outside the known range, or whose identity is missing, is dropped: nothing
\* is transmitted or invoked, and the AddressCache, the RetrySlot and the
\* channel are unchanged.
C17_InvalidCodeDropped ==
    DecodedObject
      /\ \/ ~Has(last.message, TalkieKey.MESSAGE)
         \/ ~Has(last.message, TalkieKey.IDENTITY)
         \/ \A code \in MessageValues :
               ~IsInteger(Get(last.message, TalkieKey.MESSAGE), code)
    => Dropped

\* C18: a frame that is not valid UTF-8 or does not decode to a key/value
\* object is dropped silently: nothing is transmitted or invoked, the
\* AddressCache, the RetrySlot and the channel are unchanged, and the receive
\* task goes on to the next frame.
C18_UndecodableDropped ==
    last.op = "listen" /\ decode(last.data).kind # "dict" =>
        Dropped /\ thread = "alive"

\* encoded message buffers without a checksum field: the messages of the
\* frames that decode, and the message with a nested object
Buffers ==
    {encode(IntakeTable[f].decoded.msg) : f \in {g \in Frames : IntakeTable[g].decoded.kind = "dict"}}
        \cup {encode(NestedMessage)}

\* the frame insert_checksum makes of each buffer, and what remove leaves of
\* that frame (listen, line 88)
RoundTrip ==
    [b \in Buffers |->
        [frame |-> insert_checksum(b),
         stripped |-> remove(insert_checksum(b), "c", 4).payload]]

\* C19: for every encoded buffer b without a checksum field, the receive path
\* handed insert_checksum(b) reads the checksum it computes, and the buffer
\* it is left with once the checksum field is removed is b, byte for byte.
C19_ChecksumRoundTrip ==
    \A b \in Buffers :
        last.op = "listen" /\ last.data = RoundTrip[b].frame =>
            /\ IntakeTable[last.data].exc = "none"
            /\ IntakeTable[last.data].message_checksum = IntakeTable[last.data].checksum
            /\ RoundTrip[b].stripped = b

\* C20: the checksum computed for a frame that carries a checksum field is
\* one value, whichever way it is computed: valid_checksum (decode, checksum
\* key set to 0, encode again) gives what the byte-level receive path gives.
C20_ChecksumPathsAgree ==
    DecodedObject /\ get_colon_position(last.data, "c", 4) # 0
        /\ decode(last.data).kind = "dict" =>
            valid_checksum(decode(last.data).msg).checksum
                = IntakeTable[last.data].checksum

\* an ECHO frame with an integer timestamp has just been handled while the
\* tracked original message was a PING
EchoOfPing ==
    /\ Validated
    /\ HasInt(last.message, TalkieKey.MESSAGE, MessageValue.ECHO)
    /\ HasInt(last.pre.original, TalkieKey.MESSAGE, MessageValue.PING)
    /\ IsInteger(Get(last.message, TalkieKey.TIMESTAMP),
                 Get(last.message, TalkieKey.TIMESTAMP).int)

\* C24: an ECHO that arrives while the tracked original message is a PING
\* leaves the intake with a field "0": the clock minus the message's
\* timestamp modulo 65536, a value in 0..65535 whatever integer the timestamp
\* is; a field "0" the message came with is left as it was.
C24_EchoDelayWraps ==
    EchoOfPing =>
        /\ Has(last.final, Key_0)
        /\ Get(last.final, Key_0) =
              IF Has(last.message, Key_0) THEN Get(last.message, Key_0)
              ELSE IntV((last.now - Get(last.message, TalkieKey.TIMESTAMP).int) % 65536)
        /\ ~Has(last.message, Key_0) => Get(last.final, Key_0).int \in 0..65535

RepliedValue(v) ==
    /\ Len(Sends) = 1
    /\ HasInt(Sends[1].msg, TalkieKey.MESSAGE, MessageValue.ECHO)
    /\ Has(Sends[1].msg, TalkieKey.VALUE)
    /\ Get(Sends[1].msg, TalkieKey.VALUE) = IntV(v)

\* the frame just handled is addressed to an integer, and is a valid message
\* otherwise
ToInteger ==
    /\ DecodedObject
    /\ Has(last.message, TalkieKey.TO)
    /\ IsInteger(Get(last.message, TalkieKey.TO), Get(last.message, TalkieKey.TO).int)
    /\ HasInt(last.message, TalkieKey.MESSAGE, MessageValue.TALK)
    /\ Has(last.message, TalkieKey.IDENTITY)

\* C25: a CHANNEL request with an integer value v sets the channel to v and
\* is answered with v; one without a value leaves the channel as it is and
\* is answered with the channel; a handler working on a message of any other
\* code leaves the channel as it is.  A frame addressed to an integer is
\* answered if that integer is the channel, and dropped if it is not.
C25_ChannelSetAndReported ==
    /\ Request(MessageValue.CHANNEL) /\ Has(last.message, TalkieKey.VALUE)
          /\ IsInteger(Get(last.message, TalkieKey.VALUE),
                       Get(last.message, TalkieKey.VALUE).int)
        => /\ channel = Get(last.message, TalkieKey.VALUE).int
           /\ RepliedValue(Get(last.message, TalkieKey.VALUE).int)
    /\ Request(MessageValue.CHANNEL) /\ ~Has(last.message, TalkieKey.VALUE)
        => channel = last.pre.channel /\ RepliedValue(last.pre.channel)
    /\ last.op # "none" /\ ~HasInt(last.message, TalkieKey.MESSAGE, MessageValue.CHANNEL)
        => channel = last.pre.channel
    /\ ToInteger =>
          IF Get(last.message, TalkieKey.TO).int = last.pre.channel
          THEN Len(Sends) = 1
          ELSE Dropped

\* C25 happens: the channel was set to 5, and a frame addressed to 5 has
\* been answered
C25_Witness ==
    /\ last.op = "listen"
    /\ last.data = Frame.talk_to_5
    /\ last.pre.channel = 5
    /\ Len(Sends) = 1

Fields(d) == {d[j] : j \in 1..Len(d)}

\* the handler answered an ERROR(CHECKSUM) that matched the active RetrySlot
\* by sending a message
Resent ==
    /\ last.op = "listen"
    /\ ChecksumErrorHandled
    /\ SlotActiveAtIntake
    /\ MatchesSlot
    /\ Len(Sends) = 1

\* C27: the message sent by an automatic resend is the stored recoverable
\* message: it has the stored message-code under the message-code key, the
\* stored identity, the stored to and from, and the same other fields and
\* values.
C27_ResendIsStored ==
    Resent =>
        /\ Has(Sends[1].msg, TalkieKey.MESSAGE)
        /\ Get(Sends[1].msg, TalkieKey.MESSAGE)
              = Get(last.pre.recoverable, TalkieKey.MESSAGE)
        /\ Fields(Sends[1].msg) = Fields(last.pre.recoverable)

\* transmitMessage was given a message for the transport that has no identity
\* and another code than NOISE while the RetrySlot held an active message
SecondSend ==
    /\ last.op = "talk"
    /\ ~Has(last.message, TalkieKey.IDENTITY)
    /\ ~HasInt(last.message, TalkieKey.BROADCAST, BroadcastValue.SELF)
    /\ ~HasInt(last.message, TalkieKey.MESSAGE, MessageValue.NOISE)
    /\ last.pre.active
    /\ Has(last.pre.recoverable, TalkieKey.IDENTITY)

\* an ERROR(CHECKSUM) was handled whose identity is not the one of the
\* message the active RetrySlot holds
ErrorForAnother ==
    /\ last.op = "listen"
    /\ ChecksumErrorHandled
    /\ last.pre.active
    /\ Has(last.pre.recoverable, TalkieKey.IDENTITY)
    /\ ~MatchesSlot

\* C28: one message is recoverable at a time. A qualifying send B made while
\* the RetrySlot holds A leaves B alone in the slot, active and never resent;
\* an ERROR(CHECKSUM) carrying another identity than the slot's message, A's
\* for one, sends nothing and leaves the slot's message, its count of resends
\* and its allowance as they were (the slot stays active unless its age has
\* passed the timeout).
C28_OnlyLastRecoverable ==
    /\ SecondSend =>
          /\ Len(Sends) = 1
          /\ recoverable_message = Sends[1].msg
          /\ Get(recoverable_message, TalkieKey.IDENTITY) = IntV(last.now)
          /\ active_message
          /\ resends = 0
          /\ ~Has(recoverable_message, <<"M">>)
    /\ ErrorForAnother =>
          /\ Sends = <<>>
          /\ recoverable_message = last.pre.recoverable
          /\ resends = last.pre.resends
          /\ active_message = SlotActiveAtIntake

\* C28 happens: the slot held the message of identity 500, sent after one of
\* identity 0 had been resent, when the ERROR(CHECKSUM) for identity 0 came
\* at clock 501: nothing was sent and the slot is active, its message not
\* resent
C28_Witness ==
    /\ ErrorForAnother
    /\ last.data = Frame.error_0
    /\ last.now = 501
    /\ SlotIdentity = 500
    /\ Sends = <<>>
    /\ active_message
    /\ resends = 0

\* transmitMessage handed remoteSend a message that had no identity
SentUnidentified ==
    /\ last.op = "talk"
    /\ ~Has(last.message, TalkieKey.IDENTITY)
    /\ ~HasInt(last.message, TalkieKey.BROADCAST, BroadcastValue.SELF)
    /\ Len(Sends) = 1

\* the message-code is the one of an original request: below ECHO, not NOISE
GenuineRequest(message) ==
    /\ Has(message, TalkieKey.MESSAGE)
    /\ IsInt(Get(message, TalkieKey.MESSAGE))
    /\ Get(message, TalkieKey.MESSAGE).int < MessageValue.ECHO
    /\ Get(message, TalkieKey.MESSAGE).int # MessageValue.NOISE

\* C29: remoteSend changes the tracked original message and the RetrySlot
\* only for a message that came without identity and has the code of an
\* original request; for any other message without identity, for the reply
\* to a validated request of a peer and for an automatic resend it leaves the
\* original message and the RetrySlot as they were when it was called.
C29_TrackedOnlyForRequests ==
    /\ SentUnidentified /\ ~GenuineRequest(last.message) =>
          /\ original_message = last.pre.original
          /\ recoverable_message = last.pre.recoverable
          /\ active_message = last.pre.active
    /\ (\E code \in MessageValues : Request(code)) /\ FromPeer /\ Len(Sends) >= 1 =>
          /\ original_message = last.pre.original
          /\ recoverable_message = last.pre.recoverable
          /\ active_message = (last.pre.active /\ SlotActiveAtIntake)
    /\ Resent =>
          /\ original_message = last.pre.original
          /\ recoverable_message = RenameKeys(last.pre.recoverable, 1, EmptyDict)

\* C30: when the application's transmitMessage runs while the receive task
\* handles an ERROR(CHECKSUM), every message the task then sends carries the
\* identity the error matched, and a message the application stored in the
\* RetrySlot meanwhile is in the slot as it was sent, active and not marked
\* as resent.
C30_RaceKeepsSlot ==
    last.op = "resumed" =>
        /\ \A j \in 1..Len(Sends) :
              /\ Has(Sends[j].msg, TalkieKey.IDENTITY)
              /\ Get(Sends[j].msg, TalkieKey.IDENTITY)
                    = Get(last.message, TalkieKey.IDENTITY)
        /\ last.final # EmptyDict =>
              /\ recoverable_message = last.final
              /\ active_message

\* the frame just handled passed its checksum, decoding and validation and
\* carries a from field
ValidFrom ==
    /\ Validated
    /\ ~ChecksumMismatch
    /\ Has(last.message, TalkieKey.FROM)

\* C31: the AddressCache maps each peer name to the transport address of the
\* most recent validated frame that carried it as from: such a frame puts its
\* address under its from name and changes no other entry; a frame that fails
\* its checksum, decoding or validation, an iteration without frame and a
\* transmitMessage leave the AddressCache as it was.
C31_CacheFollowsValidFrames ==
    /\ last.op = "listen" =>
          devices_address =
              IF ValidFrom
              THEN DevPut(last.pre.devices, Get(last.message, TalkieKey.FROM),
                          last.ip_port)
              ELSE last.pre.devices
    /\ last.op \in {"talk", "idle"} => devices_address = last.pre.devices

\* the listen loop has just handled a validated frame that asks for a reply,
\* whatever its broadcast tag
RequestFromTransport ==
    /\ Validated
    /\ \E code \in {MessageValue.TALK, MessageValue.CHANNEL, MessageValue.PING,
                     MessageValue.CALL, MessageValue.LIST, MessageValue.SYSTEM} :
          HasInt(last.message, TalkieKey.MESSAGE, code)

\* C37: the replies to a validated request frame received from the
\* transport are handed to the transport, whatever else the frame carries,
\* a broadcast tag of the self value included: handling it never enters
\* local dispatch and never invokes the local echo callback, and a CALL
\* whose callable is invoked is acknowledged on the transport.
C37_RepliesGoToTransport ==
    RequestFromTransport =>
        /\ Calls("here") = <<>>
        /\ Calls("echo") = <<>>
        /\ Calls("run") # <<>> => Sends # <<>>

(***************************************************************************)
(* Properties of the frame assembly, read under FramerSpec.  What the line *)
(* carries is told from the stream itself, by searching it for braces, and *)
(* compared with what receive() has returned.                              *)
(***************************************************************************)
\* the least member of a set of indices, 0 for the empty set
FirstOf(S) == IF S = {} THEN 0 ELSE Min(S)

\* the index of the first opening brace of s, 0 if s has none
Opening(s) == FirstOf({i \in 1..Len(s) : s[i] = "{"})

\* the index of the first closing brace of s behind index i whose preceding
\* byte is not the escape character, 0 if s has none
Closing(s, i) == FirstOf({j \in (i + 1)..Len(s) : s[j] = "}" /\ s[j - 1] # "\\"})

RECURSIVE Messages(_)
\* the complete messages of s, one after the other
Messages(s) ==
    IF Opening(s) = 0 \/ Closing(s, Opening(s)) = 0 THEN <<>>
    ELSE <<SubSeq(s, Opening(s), Closing(s, Opening(s)))>>
            \o Messages(SubSeq(s, Closing(s, Opening(s)) + 1, Len(s)))

\* what stream s carries: where its first message opens and closes; one, it
\* is one message that fits the scratch buffer, with no opening brace behind
\* it; overflows, the scratch buffer fills before the message closes; later,
\* the complete messages behind the bytes that filled the buffer
CarriedBy(s) ==
    [from |-> Opening(s),
     to |-> Closing(s, Opening(s)),
     one |-> /\ Opening(s) # 0
             /\ Closing(s, Opening(s)) # 0
             /\ Closing(s, Opening(s)) - Opening(s) + 1 <= BROADCAST_SOCKET_BUFFER_SIZE
             /\ \A i \in (Closing(s, Opening(s)) + 1)..Len(s) : s[i] # "{",
     overflows |->
         /\ Opening(s) # 0
         /\ \/ Closing(s, Opening(s)) = 0
            \/ Closing(s, Opening(s)) - Opening(s) + 1 > BROADCAST_SOCKET_BUFFER_SIZE
         /\ Len(s) - Opening(s) + 1 > BROADCAST_SOCKET_BUFFER_SIZE,
     later |->
         Messages(Slice(s, Opening(s) - 1 + BROADCAST_SOCKET_BUFFER_SIZE, Len(s)))]

\* CarriedBy for every stream of the model, computed once
Carried == [name \in DOMAIN Stream |-> CarriedBy(Stream[name])]

\* how many bytes of the line receive() has read
Consumed == Len(Stream[fed]) - Len(stream)

\* a is a prefix of b
IsPrefix(a, b) == Len(a) <= Len(b) /\ a = SubSeq(b, 1, Len(a))

\* C21: of a byte stream that holds one message, from its first opening
\* brace to the first closing brace whose preceding byte is not a backslash,
\* no longer than the scratch buffer, receive() returns exactly one frame,
\* the bytes of that message, however the bytes are split over the calls: no
\* frame before the closing brace is read, that frame once it is read, and
\* none for the bytes around the message, after which the framer is idle.
C21_OneFrame ==
    Carried[fed].one /\ ~io_failed =>
        /\ frames = IF Consumed >= Carried[fed].to
                    THEN <<SubSeq(Stream[fed], Carried[fed].from, Carried[fed].to)>>
                    ELSE <<>>
        /\ stream = <<>> => ~reading_serial /\ received_length = 0

\* C21 happens: the stream ..{"m":1,"t":"*"}.. was read to its end and one
\* frame, the bracketed bytes, was returned
C21_Witness ==
    /\ fed = "scenario"
    /\ stream = <<>>
    /\ ~io_failed
    /\ frames = <<SubSeq(Stream.scenario, 3, 17)>>

\* C22: when the scratch buffer fills before the message closes, the partial
\* frame is never returned and the framer is idle once the byte that finds
\* the buffer full is read; every complete message that opens behind the
\* bytes that filled the buffer is returned as a frame, and nothing else is.
C22_OverflowDiscarded ==
    Carried[fed].overflows /\ ~io_failed =>
        /\ IsPrefix(frames, Carried[fed].later)
        /\ Consumed = Carried[fed].from + BROADCAST_SOCKET_BUFFER_SIZE =>
              ~reading_serial /\ received_length = 0
        /\ stream = <<>> => frames = Carried[fed].later

\* C38: between the calls of receive(), whatever bytes were read, the
\* cursor is within 0..128, the size of the scratch buffer; it is 0
\* whenever the framer is idle, and while a frame is accumulated it is at
\* least 1 and the first byte of the scratch buffer is the opening brace.
C38_CursorInBounds ==
    /\ received_length \in 0..BROADCAST_SOCKET_BUFFER_SIZE
    /\ ~reading_serial => received_length = 0
    /\ reading_serial => received_length >= 1 /\ At(received_buffer, 0) = "{"

\* C38 happens: 128 bytes of an unclosed message were read, the scratch
\* buffer is full and the framer still accumulating
C38_Witness ==
    /\ reading_serial
    /\ received_length = BROADCAST_SOCKET_BUFFER_SIZE
    /\ Consumed >= BROADCAST_SOCKET_BUFFER_SIZE

(***************************************************************************)
(* Properties of the receive tasks, read under TaskSpec.                   *)
(***************************************************************************)
\* the receive tasks that have not ended
Running == {j \in 1..Len(tasks) : tasks[j] # "exited"}

\* the receive tasks inside the loop body of listen
Handling == {j \in 1..Len(tasks) : tasks[j] = "handling"}

\* C36: after any sequence of on() and off() calls at most one receive task
\* is running, so that no two receive tasks are ever inside the loop body,
\* where the AddressCache, the RetrySlot and the channel are changed, at
\* the same time.
C36_OneReceiveTask ==
    /\ Cardinality(Running) <= 1
    /\ Cardinality(Handling) <= 1

(***************************************************************************)
(* Properties of the field codec, read under CodecSpec: steps holds the    *)
(* calls made on the buffer, each with the bytes it found (before) and     *)
(* left (after) and what it returned (ret).                                *)
(***************************************************************************)
\* the message d with the field of key k taken out
Without(d, k) == SelectSeq(d, LAMBDA e : e.k # k)

\* the serializations of the codec's messages, computed once
CodecEncoded == [name \in DOMAIN CodecMessage |-> encode(CodecMessage[name])]

\* the j-th call was op, on the serialization of the message called name
CallOn(j, op, name) ==
    /\ j \in 1..Len(steps)
    /\ steps[j].op = op
    /\ steps[j].before = CodecEncoded[name]

\* C32: remove on a compact buffer that holds a field for the key, first,
\* in the middle or last, whatever its value, leaves the buffer without the
\* bytes of "k":value and of one adjacent comma (the leading one, else the
\* trailing one), every other byte in its place, and returns the new
\* length; for an absent key it returns 0 and leaves the buffer as it was.
C32_RemoveDeletesField ==
    \A j \in 1..Len(steps), name \in DOMAIN CodecMessage :
        CallOn(j, "remove", name) =>
            /\ steps[j].exc = "none"
            /\ IF Has(CodecMessage[name], <<steps[j].key>>)
               THEN /\ steps[j].after =
                          encode(Without(CodecMessage[name], <<steps[j].key>>))
                    /\ steps[j].ret = Len(steps[j].after)
               ELSE /\ steps[j].after = steps[j].before
                    /\ steps[j].ret = 0

\* the first call removed a key the message called name has, the second set
\* the same key to a number
RemovedThenSet(name) ==
    /\ Len(steps) = 2
    /\ CallOn(1, "remove", name)
    /\ Has(CodecMessage[name], <<steps[1].key>>)
    /\ steps[2].op = "set_number"
    /\ steps[2].key = steps[1].key

\* C33: for a buffer encode produced that holds the key, remove of the key
\* followed by set_number of the key to v leaves a buffer that decodes to
\* the original message with that key's value v and every other key and
\* value as they were.
C33_RemoveThenSet ==
    \A name \in DOMAIN CodecMessage :
        RemovedThenSet(name) =>
            /\ decode(steps[2].after).kind = "dict"
            /\ Fields(decode(steps[2].after).msg) =
                  Fields(Put(CodecMessage[name], <<steps[2].key>>,
                             IntV(steps[2].number)))

\* the message d with the key k last and its value the number v
WithLast(d, k, v) == Append(Without(d, k), KV(k, IntV(v)))

\* C34: after set_number of a key to v >= 0 on a buffer that ends in a
\* closing brace, the buffer holds one field for the key, right before the
\* final brace, its value v in decimal, most significant digit first (0 as
\* the one digit 0), behind a comma unless the object is otherwise empty;
\* every other field is as it was, and get_number of the key returns v.
C34_SetNumberPlacesField ==
    \A j \in 1..Len(steps), name \in DOMAIN CodecMessage :
        CallOn(j, "set_number", name) =>
            /\ steps[j].exc = "none"
            /\ steps[j].ret = 1
            /\ steps[j].after =
                  encode(WithLast(CodecMessage[name], <<steps[j].key>>,
                                  steps[j].number))
            /\ j < Len(steps) /\ steps[j + 1].op = "get_number"
                    /\ steps[j + 1].key = steps[j].key
                  => steps[j + 1].ret = steps[j].number

\* the k-th 2-byte big-endian chunk of the buffer b, k from 0; a final odd
\* byte is the high byte of a chunk whose low byte is 0
Chunk(b, k) ==
    (Ord(At(b, 2 * k)) * 256) + (IF (2 * k) + 1 < Len(b) THEN Ord(At(b, (2 * k) + 1)) ELSE 0)

\* bit n of the non-negative integer x
Bit(x, n) == (x \div (2 ^ n)) % 2

\* how many chunks of the buffer b have bit n set
ChunksWithBit(b, n) ==
    Cardinality({k \in 0..(((Len(b) + 1) \div 2) - 1) : Bit(Chunk(b, k), n) = 1})

\* C35: generate_checksum returns the XOR of the buffer's consecutive
\* 2-byte big-endian chunks, a final odd byte being the high byte of a
\* chunk whose low byte is 0: a 16-bit value, each bit of it set exactly
\* when an odd number of chunks have that bit set, and 0 for the empty buffer.
C35_ChecksumIsXorOfChunks ==
    \A j \in 1..Len(steps) :
        steps[j].op = "generate_checksum" =>
            /\ steps[j].ret \in 0..65535
            /\ \A n \in 0..15 :
                  Bit(steps[j].ret, n) = ChunksWithBit(steps[j].before, n) % 2
            /\ steps[j].before = <<>> => steps[j].ret = 0
            /\ steps[j].after = steps[j].before

\* C35 happens: the checksum of the seven bytes {"m":1} was taken, the
\* closing brace alone in the last chunk
C35_Witness ==
    \E j \in 1..Len(steps) :
        /\ CallOn(j, "generate_checksum", "alone")
        /\ Len(steps[j].before) = 7
        /\ steps[j].ret = 20785

\* C39: for a buffer whose checksum field holds a decimal integer,
\* extract_checksum returns that integer and a new length n such that the
\* first n bytes of the buffer are the original bytes with the checksum's
\* value replaced by the single digit 0, every other byte as it was.
C39_ExtractZeroesChecksum ==
    \A j \in 1..Len(steps), name \in DOMAIN CodecMessage :
        CallOn(j, "extract_checksum", name) /\ Has(CodecMessage[name], <<"c">>) =>
            /\ steps[j].number = Get(CodecMessage[name], <<"c">>).int
            /\ steps[j].ret <= Len(steps[j].after)
            /\ Slice(steps[j].after, 0, steps[j].ret) =
                  encode(Put(CodecMessage[name], <<"c">>, IntV(0)))

=============================================================================
